---------------------------- MODULE Spec2Model ----------------------------
(***************************************************************************)
(* A model of the recursive-descent XML parser of src/src/lib.rs.          *)
(*                                                                         *)
(* Every production of the parser is a pure function of (text, start).    *)
(* Each is translated here into an operator of the same name; a loop of   *)
(* the source becomes a RECURSIVE operator over the loop's own variables. *)
(* The input text is a sequence of characters (&[char]); a character is a *)
(* string, one-letter for ASCII and "U+XXXX" for the non-ASCII scalars.   *)
(* A Rust String is the sequence of its characters, and String::len() is  *)
(* its UTF-8 byte length (StrLen).                                         *)
(*                                                                         *)
(* A call returns Ok(node), Err(error), or Panic when the source aborts   *)
(* (a slice whose start lies beyond the text, unimplemented!()).          *)
(*                                                                         *)
(* The state machine draws an input text from a family of tokens, part by *)
(* part, then applies one production to it and records the result.        *)
(***************************************************************************)
EXTENDS Integers, Sequences, FiniteSets, TLC

VARIABLES
    fam,      \* the family of inputs the text is drawn from
    text,     \* the input, a sequence of characters
    nparts,   \* the number of tokens the text is made of
    pc,       \* "build" while the text grows, "done" once a production ran
    call,     \* the production that was applied ("none" before)
    start,    \* the start offset it was applied at
    res       \* its result

vars == <<fam, text, nparts, pc, call, start, res>>

-----------------------------------------------------------------------------
(* Characters *)

LowerAZ == {"a","b","c","d","e","f","g","h","i","j","k","l","m",
            "n","o","p","q","r","s","t","u","v","w","x","y","z"}
UpperAZ == {"A","B","C","D","E","F","G","H","I","J","K","L","M",
            "N","O","P","Q","R","S","T","U","V","W","X","Y","Z"}
Digits  == {"0","1","2","3","4","5","6","7","8","9"}

\* The non-ASCII scalars the inputs use, with their code points:
\* U+00E9 (e acute), U+00D7 (multiplication sign), U+00B7 (middle dot),
\* U+20AC (euro sign).
NonAscii == {"U+00E9", "U+00D7", "U+00B7", "U+20AC"}

CodePoint(c) ==
    CASE c = "U+00E9" -> 233
      [] c = "U+00D7" -> 215
      [] c = "U+00B7" -> 183
      [] c = "U+20AC" -> 8364
      [] OTHER -> 0      \* ASCII: below every range tested on the code point

\* char::len_utf8, as String::push and String::len count it.
Utf8Len(c) ==
    IF c \notin NonAscii THEN 1
    ELSE IF CodePoint(c) < 2048 THEN 2
    ELSE IF CodePoint(c) < 65536 THEN 3
    ELSE 4

RECURSIVE StrLen(_)
StrLen(s) == IF s = <<>> THEN 0 ELSE Utf8Len(Head(s)) + StrLen(Tail(s))

\* char::to_lowercase on the characters of the model; str::to_lowercase maps it.
CharLower(c) ==
    CASE c = "A" -> "a" [] c = "B" -> "b" [] c = "C" -> "c" [] c = "D" -> "d"
      [] c = "E" -> "e" [] c = "F" -> "f" [] c = "G" -> "g" [] c = "H" -> "h"
      [] c = "I" -> "i" [] c = "J" -> "j" [] c = "K" -> "k" [] c = "L" -> "l"
      [] c = "M" -> "m" [] c = "N" -> "n" [] c = "O" -> "o" [] c = "P" -> "p"
      [] c = "Q" -> "q" [] c = "R" -> "r" [] c = "S" -> "s" [] c = "T" -> "t"
      [] c = "U" -> "u" [] c = "V" -> "v" [] c = "W" -> "w" [] c = "X" -> "x"
      [] c = "Y" -> "y" [] c = "Z" -> "z"
      [] OTHER -> c

to_lowercase(s) == [i \in 1..Len(s) |-> CharLower(s[i])]

-----------------------------------------------------------------------------
(* Results, errors, options *)

Ok(v)  == [k |-> "Ok", v |-> v]
Err(e) == [k |-> "Err", e |-> e]
Panic  == [k |-> "Panic"]

BadChar(c)           == [kind |-> "BadChar", c |-> c]
MaxRecurDepth(d)     == [kind |-> "MaxRecurDepth", d |-> d]
TextEnd              == [kind |-> "TextEnd"]
NoValidVariant       == [kind |-> "NoValidVariant"]
IllegalSubstr        == [kind |-> "IllegalSubstr"]
ReservedNameXml      == [kind |-> "ReservedNameXml"]
MismatchedTags(a, b) == [kind |-> "MismatchedTags", a |-> a, b |-> b]
BadCDATAStart        == [kind |-> "BadCDATAStart"]
NoData               == [kind |-> "NoData"]
BadXDeclStart        == [kind |-> "BadXDeclStart"]
KeywordMatchFail     == [kind |-> "KeywordMatchFail"]

None    == [some |-> FALSE]
Some(v) == [some |-> TRUE, v |-> v]

\* `let x = v;` followed by the code F that uses x
Bind(v, F(_)) == F(v)

IsOk(r)    == r.k = "Ok"
IsErr(r)   == r.k = "Err"
IsPanic(r) == r.k = "Panic"

\* slice::get(i) on a 0-based index: Has tells Some from None, Get is the value.
Has(t, i) == i >= 0 /\ i < Len(t)
Get(t, i) == t[i + 1]

\* t[pos..].starts_with(needle); the caller has checked pos <= len.
StartsWith(t, pos, needle) ==
    /\ pos + Len(needle) <= Len(t)
    /\ SubSeq(t, pos + 1, pos + Len(needle)) = needle

\* Vec::pop / String::pop: the sequence without its last element.
Front(s) == SubSeq(s, 1, Len(s) - 1)
Last(s)  == s[Len(s)]

-----------------------------------------------------------------------------
(* Lexical primitives *)

WsChars == {" ", "\t", "\n", "\r"}

is_namestart(c) ==
    \/ c \in {":", "_"} \cup LowerAZ \cup UpperAZ
    \/ LET u == CodePoint(c) IN
         \/ (u >= 192 /\ u <= 214) \/ (u >= 216 /\ u <= 246)
         \/ (u >= 248 /\ u <= 767) \/ (u >= 880 /\ u <= 893)
         \/ (u >= 895 /\ u <= 8191) \/ (u >= 8204 /\ u <= 8205)
         \/ (u >= 8304 /\ u <= 8591) \/ (u >= 11264 /\ u <= 12271)
         \/ (u >= 12289 /\ u <= 55295)
         \/ (u >= 63744 /\ u <= 64975) \/ (u >= 65008 /\ u <= 65533)
         \/ (u >= 65536 /\ u <= 983039)

is_namec(c) ==
    \/ is_namestart(c)
    \/ c \in {"-", "."} \cup Digits
    \/ LET u == CodePoint(c) IN
         u = 183 \/ (u >= 768 /\ u <= 879) \/ (u >= 8255 /\ u <= 8256)

\* The index of the first character at or after i that is not a name character.
RECURSIVE name_run(_, _)
name_run(t, i) ==
    IF Has(t, i) /\ is_namec(Get(t, i)) THEN name_run(t, i + 1) ELSE i

\* A Name is the String it wraps.
parse_name(t, s) ==
    IF ~Has(t, s) THEN Err(TextEnd)
    ELSE IF is_namestart(Get(t, s))
         THEN Ok(SubSeq(t, s + 1, name_run(t, s + 1)))
         ELSE Err(BadChar(Get(t, s)))

RECURSIVE ws_run(_, _)
ws_run(t, i) ==
    IF Has(t, i) /\ Get(t, i) \in WsChars THEN ws_run(t, i + 1) ELSE i

\* parse_ws that succeeds with an empty run where no whitespace begins.
parse_ws_empty(t, s) ==
    IF ~Has(t, s) THEN Err(TextEnd)
    ELSE Ok([start |-> s, text |-> SubSeq(t, s + 1, ws_run(t, s))])

parse_ws(t, s) ==
    IF ~Has(t, s) THEN Err(TextEnd)
    ELSE IF Get(t, s) \in WsChars
         THEN Ok([start |-> s, text |-> SubSeq(t, s + 1, ws_run(t, s + 1))])
         ELSE Err(BadChar(Get(t, s)))

Ws_get_endpos(ws) == ws.start + StrLen(ws.text)

\* parse_ws as the optional productions use it: the end of the run, or pos.
skip_ws(t, pos) ==
    Bind(parse_ws(t, pos), LAMBDA w : IF IsOk(w) THEN Ws_get_endpos(w.v) ELSE pos)

-----------------------------------------------------------------------------
(* Comments *)

\* comment_scan closing the comment on any run of two or more dashes.
RECURSIVE comment_scan_anyrun(_, _, _, _, _)
comment_scan_anyrun(t, s, i, buf, count) ==
    IF ~Has(t, i) THEN Err(TextEnd)
    ELSE LET c == Get(t, i) IN
      IF c = "-" THEN comment_scan_anyrun(t, s, i + 1, Append(buf, c), count + 1)
      ELSE IF c = ">" THEN
        IF count >= 2 THEN
          IF buf = <<>> THEN Err(TextEnd)
          ELSE IF Last(buf) # "-" THEN Err(BadChar(Last(buf)))
          ELSE LET b1 == Front(buf) IN
            IF b1 = <<>> THEN Err(TextEnd)
            ELSE IF Last(b1) # "-" THEN Err(BadChar(Last(b1)))
            ELSE Ok([start |-> s, text |-> Front(b1)])
        ELSE comment_scan_anyrun(t, s, i + 1, Append(buf, c), 0)
      ELSE
        IF count >= 2 THEN Err(IllegalSubstr)
        ELSE comment_scan_anyrun(t, s, i + 1, Append(buf, c), 0)

\* The scanning loop of parse_comment: i is the index of the next character,
\* buf and count are the loop's variables.
RECURSIVE comment_scan(_, _, _, _, _)
comment_scan(t, s, i, buf, count) ==
    IF ~Has(t, i) THEN Err(TextEnd)
    ELSE LET c == Get(t, i) IN
      IF c = "-" THEN comment_scan(t, s, i + 1, Append(buf, c), count + 1)
      ELSE IF c = ">" THEN
        IF count = 2 THEN
          IF buf = <<>> THEN Err(TextEnd)
          ELSE IF Last(buf) # "-" THEN Err(BadChar(Last(buf)))
          ELSE LET b1 == Front(buf) IN
            IF b1 = <<>> THEN Err(TextEnd)
            ELSE IF Last(b1) # "-" THEN Err(BadChar(Last(b1)))
            ELSE Ok([start |-> s, text |-> Front(b1)])
        ELSE IF count > 2 THEN Err(IllegalSubstr)
        ELSE comment_scan(t, s, i + 1, Append(buf, c), 0)
      ELSE
        IF count >= 2 THEN Err(IllegalSubstr)
        ELSE comment_scan(t, s, i + 1, Append(buf, c), 0)

parse_comment(t, s) ==
    IF ~Has(t, s) THEN Err(TextEnd)
    ELSE IF Get(t, s) # "<" THEN Err(BadChar(Get(t, s)))
    ELSE IF ~Has(t, s + 1) THEN Err(TextEnd)
    ELSE IF Get(t, s + 1) # "!" THEN Err(BadChar(Get(t, s + 1)))
    ELSE IF ~Has(t, s + 2) \/ ~Has(t, s + 3) THEN Err(TextEnd)
    ELSE IF Get(t, s + 2) = "-" /\ Get(t, s + 3) = "-"
         THEN comment_scan(t, s, s + 4, <<>>, 0)
    ELSE IF Get(t, s + 2) = "-" THEN Err(BadChar(Get(t, s + 3)))
    ELSE Err(BadChar(Get(t, s + 2)))

\* "<!--".len() = 4 and "-->".len() = 3
Comment_get_endpos(c) == c.start + StrLen(c.text) + 4 + 3

-----------------------------------------------------------------------------
(* Processing instructions *)

\* parse_pitarget comparing the name with "xml" as it is written.
parse_pitarget_exact(t, s) ==
    Bind(parse_name(t, s), LAMBDA name :
    IF ~IsOk(name) THEN name
    ELSE IF name.v = <<"x", "m", "l">> THEN Err(ReservedNameXml)
    ELSE Ok([name |-> name.v]))

parse_pitarget(t, s) ==
    Bind(parse_name(t, s), LAMBDA name :
    IF ~IsOk(name) THEN name
    ELSE IF to_lowercase(name.v) = <<"x", "m", "l">> THEN Err(ReservedNameXml)
    ELSE Ok([name |-> name.v]))

\* The argument loop of parse_pi: buf and seen are the loop's variables.
RECURSIVE pi_scan(_, _, _, _, _, _, _)
pi_scan(t, s, target, ws, i, buf, seen) ==
    IF ~Has(t, i) THEN Err(TextEnd)
    ELSE LET c == Get(t, i) IN
      IF c = "?" THEN pi_scan(t, s, target, ws, i + 1, Append(buf, c), TRUE)
      ELSE IF c = ">" THEN
        IF seen THEN
          IF buf = <<>> THEN Err(TextEnd)
          ELSE IF Last(buf) = "?"
               THEN Ok([start |-> s, target |-> target,
                        space |-> Some(ws), arg |-> Some(Front(buf))])
               ELSE Err(BadChar(Last(buf)))
        ELSE pi_scan(t, s, target, ws, i + 1, Append(buf, c), seen)
      ELSE pi_scan(t, s, target, ws, i + 1, Append(buf, c), FALSE)

parse_pi(t, s) ==
    IF ~Has(t, s) THEN Err(TextEnd)
    ELSE IF Get(t, s) # "<" THEN Err(BadChar(Get(t, s)))
    ELSE IF ~Has(t, s + 1) THEN Err(TextEnd)
    ELSE IF Get(t, s + 1) # "?" THEN Err(BadChar(Get(t, s + 1)))
    ELSE Bind(parse_pitarget(t, s + 2), LAMBDA target :
      IF ~IsOk(target) THEN target
      ELSE Bind(s + StrLen(target.v.name) + 2, LAMBDA target_end :
           Bind(parse_ws(t, target_end), LAMBDA maybe_blank :
        IF IsOk(maybe_blank)
        THEN pi_scan(t, s, target.v, maybe_blank.v,
                     Ws_get_endpos(maybe_blank.v), <<>>, FALSE)
        ELSE IF maybe_blank.e = BadChar("?")
        THEN IF ~Has(t, target_end + 1) THEN Err(TextEnd)
             ELSE IF Get(t, target_end + 1) = ">"
                  THEN Ok([start |-> s, target |-> target.v,
                           space |-> None, arg |-> None])
                  ELSE Err(BadChar(Get(t, target_end + 1)))
        ELSE maybe_blank)))

ProcInstr_get_endpos(pi) ==
    pi.start + StrLen(pi.target.name) + 4
      + (IF pi.space.some THEN StrLen(pi.space.v.text) ELSE 0)
      + (IF pi.arg.some THEN StrLen(pi.arg.v) ELSE 0)

-----------------------------------------------------------------------------
(* References *)

HexDigits == Digits \cup {"a","b","c","d","e","f"} \cup {"A","B","C","D","E","F"}

\* The loop of parse_reference over text[(start + 2)..]: it ends at a ';' and
\* also when the text ends.
RECURSIVE charref_scan(_, _, _, _)
charref_scan(t, i, ref_text, at_start) ==
    IF ~Has(t, i) THEN Ok([kind |-> "CharRef", s |-> ref_text])
    ELSE LET c == Get(t, i) IN
      IF c = ";" THEN Ok([kind |-> "CharRef", s |-> ref_text])
      ELSE IF c \in HexDigits
           THEN charref_scan(t, i + 1, Append(ref_text, c), FALSE)
      ELSE IF c = "x" /\ at_start
           THEN charref_scan(t, i + 1, Append(ref_text, c), FALSE)
      ELSE Err(BadChar(c))

parse_reference(t, s) ==
    IF ~Has(t, s) THEN Err(TextEnd)
    ELSE IF Get(t, s) # "&" THEN Err(BadChar(Get(t, s)))
    ELSE IF ~Has(t, s + 1) THEN Err(TextEnd)
    ELSE IF Get(t, s + 1) = "#" THEN charref_scan(t, s + 2, <<>>, TRUE)
    ELSE Bind(parse_name(t, s + 1), LAMBDA name :
      IF ~IsOk(name) THEN name
      ELSE Bind(s + 1 + StrLen(name.v), LAMBDA pos :
        IF ~Has(t, pos) THEN Err(TextEnd)
        ELSE IF Get(t, pos) = ";"
             THEN Ok([kind |-> "EntityRef", name |-> name.v])
             ELSE Err(BadChar(Get(t, pos)))))

Reference_text_len(r) ==
    IF r.kind = "EntityRef" THEN StrLen(r.name) + 2 ELSE StrLen(r.s) + 3

-----------------------------------------------------------------------------
(* Character data and CDATA sections *)

\* chardata_scan with a count of ']' that no other character resets.
RECURSIVE chardata_scan_noreset(_, _, _, _, _)
chardata_scan_noreset(t, s, here, data, count) ==
    IF ~Has(t, here) THEN Err(TextEnd)
    ELSE LET c == Get(t, here) IN
      IF c = "<" \/ c = "&" THEN
        IF StrLen(data) > 0 THEN Ok([start |-> s, text |-> data])
        ELSE Err(NoData)
      ELSE IF c = "]"
           THEN chardata_scan_noreset(t, s, here + 1, Append(data, c), count + 1)
      ELSE IF c = ">" /\ count >= 2 THEN Err(IllegalSubstr)
      ELSE chardata_scan_noreset(t, s, here + 1, Append(data, c), count)

\* The loop of parse_chardata: here, data and count are the loop's variables;
\* hit_bad_substring ends it with IllegalSubstr.
RECURSIVE chardata_scan(_, _, _, _, _)
chardata_scan(t, s, here, data, count) ==
    IF ~Has(t, here) THEN Err(TextEnd)
    ELSE LET c == Get(t, here) IN
      IF c = "<" \/ c = "&" THEN
        IF StrLen(data) > 0 THEN Ok([start |-> s, text |-> data])
        ELSE Err(NoData)
      ELSE IF c = "]" THEN chardata_scan(t, s, here + 1, Append(data, c), count + 1)
      ELSE IF c = ">" /\ count >= 2 THEN Err(IllegalSubstr)
      ELSE chardata_scan(t, s, here + 1, Append(data, c), 0)

\* parse_chardata that takes a lone '&' for character data.
parse_chardata_amp(t, s) ==
    IF Has(t, s) /\ Get(t, s) = "&" THEN Ok([start |-> s, text |-> <<"&">>])
    ELSE chardata_scan(t, s, s, <<>>, 0)

parse_chardata(t, s) == chardata_scan(t, s, s, <<>>, 0)

CharData_get_endpos(cd) == cd.start + StrLen(cd.text)

StartNeedle == <<"<", "!", "[", "C", "D", "A", "T", "A", "[">>

\* cdsect_scan closing the section only on a run of exactly two ']'.
RECURSIVE cdsect_scan_exactrun(_, _, _, _, _)
cdsect_scan_exactrun(t, s, i, data, count) ==
    IF ~Has(t, i) THEN Err(TextEnd)
    ELSE LET c == Get(t, i) IN
      IF c = "]" THEN cdsect_scan_exactrun(t, s, i + 1, Append(data, c), count + 1)
      ELSE IF c = ">" /\ count = 2 THEN
        LET c_ult == Last(data)
            c_pen == Last(Front(data))
        IN IF c_pen # "]" THEN Err(BadChar(c_pen))
           ELSE IF c_ult # "]" THEN Err(BadChar(c_ult))
           ELSE Ok([start |-> s, text |-> Front(Front(data))])
      ELSE cdsect_scan_exactrun(t, s, i + 1, Append(data, c), 0)

RECURSIVE cdsect_scan(_, _, _, _, _)
cdsect_scan(t, s, i, data, count) ==
    IF ~Has(t, i) THEN Err(TextEnd)
    ELSE LET c == Get(t, i) IN
      IF c = "]" THEN cdsect_scan(t, s, i + 1, Append(data, c), count + 1)
      ELSE IF c = ">" /\ count >= 2 THEN
        LET c_ult == Last(data)
            c_pen == Last(Front(data))
        IN IF c_pen # "]" THEN Err(BadChar(c_pen))
           ELSE IF c_ult # "]" THEN Err(BadChar(c_ult))
           ELSE Ok([start |-> s, text |-> Front(Front(data))])
      ELSE cdsect_scan(t, s, i + 1, Append(data, c), 0)

\* &text[start..] aborts when start is beyond the text.
parse_cdsect(t, s) ==
    IF s > Len(t) THEN Panic
    ELSE IF StartsWith(t, s, StartNeedle)
         THEN cdsect_scan(t, s, s + Len(StartNeedle), <<>>, 0)
         ELSE Err(BadCDATAStart)

\* "<![CDATA[".len() = 9 and "]]>".len() = 3
CDSect_get_endpos(cd) == cd.start + 9 + StrLen(cd.text) + 3

-----------------------------------------------------------------------------
(* Attributes *)

AttValueItem_text_len(item) ==
    IF item.kind = "Text" THEN StrLen(item.s) ELSE Reference_text_len(item.r)

TextItem(s) == [kind |-> "Text", s |-> s]
RefItem(r)  == [kind |-> "Reference", r |-> r]

\* items with the pending text segment flushed into it, when there is one
flush_item(items, current_item) ==
    IF StrLen(current_item) > 0 THEN Append(items, TextItem(current_item))
    ELSE items

\* The loop of parse_attvalue: idx, items and current_item are its variables.
RECURSIVE attvalue_scan(_, _, _, _, _, _)
attvalue_scan(t, s, single_qoute, idx, items, current_item) ==
    IF ~Has(t, idx) THEN Err(TextEnd)
    ELSE Bind(Get(t, idx), LAMBDA c :
      IF (c = "'" /\ single_qoute) \/ (c = "\"" /\ ~single_qoute)
      THEN Ok([start |-> s, items |-> flush_item(items, current_item)])
      ELSE IF c = "<" THEN Err(BadChar(c))
      ELSE IF c = "&" THEN
        Bind(parse_reference(t, idx), LAMBDA reference :
        IF ~IsOk(reference) THEN reference
        ELSE attvalue_scan(t, s, single_qoute,
                           idx + Reference_text_len(reference.v),
                           Append(flush_item(items, current_item),
                                  RefItem(reference.v)),
                           <<>>))
      ELSE attvalue_scan(t, s, single_qoute, idx + 1, items,
                         Append(current_item, c)))

parse_attvalue(t, s) ==
    IF ~Has(t, s) THEN Err(TextEnd)
    ELSE attvalue_scan(t, s, Get(t, s) = "'", s + 1, <<>>, <<>>)

RECURSIVE items_len(_)
items_len(items) ==
    IF items = <<>> THEN 0
    ELSE AttValueItem_text_len(Head(items)) + items_len(Tail(items))

\* the 2 takes the quote characters into account
AttValue_get_endpos(av) == av.start + items_len(av.items) + 2

parse_attribute(t, s) ==
    Bind(parse_name(t, s), LAMBDA name :
    IF ~IsOk(name) THEN name
    ELSE Bind(skip_ws(t, s + StrLen(name.v)), LAMBDA pos1 :
      IF ~Has(t, pos1) THEN Err(TextEnd)
      ELSE IF Get(t, pos1) = "="
      THEN Bind(parse_attvalue(t, skip_ws(t, pos1 + 1)), LAMBDA value :
           IF ~IsOk(value) THEN value
           ELSE Ok([start |-> s, end |-> AttValue_get_endpos(value.v),
                    name |-> name.v, value |-> value.v]))
      ELSE Err(BadChar(Get(t, pos1)))))

RECURSIVE attrib_loop(_, _, _, _)

\* The attribute loop reporting the end of the text where whitespace is missing.
attrib_loop_textend(t, closer, here, attribs) ==
    IF ~Has(t, here) THEN Err(TextEnd)
    ELSE IF Get(t, here) = closer THEN Ok([here |-> here, attribs |-> attribs])
    ELSE Bind(parse_ws(t, here), LAMBDA blank :
      IF ~IsOk(blank) THEN Err(TextEnd)
      ELSE Bind(Ws_get_endpos(blank.v), LAMBDA here1 :
           Bind(parse_attribute(t, here1), LAMBDA maybe_attrib :
        IF IsOk(maybe_attrib)
        THEN attrib_loop(t, closer, maybe_attrib.v.end,
                         Append(attribs, maybe_attrib.v))
        ELSE IF maybe_attrib.e = BadChar(closer)
             THEN Ok([here |-> here1, attribs |-> attribs])
             ELSE maybe_attrib)))

\* The attribute loop that parse_empty_elem and parse_starttag share, closer
\* being '/' for the one and '>' for the other. It yields the position and the
\* attributes at the loop's exit, or the error the loop returns.
attrib_loop(t, closer, here, attribs) ==
    IF ~Has(t, here) THEN Err(TextEnd)
    ELSE IF Get(t, here) = closer THEN Ok([here |-> here, attribs |-> attribs])
    ELSE Bind(parse_ws(t, here), LAMBDA blank :
      IF ~IsOk(blank) THEN blank
      ELSE Bind(Ws_get_endpos(blank.v), LAMBDA here1 :
           Bind(parse_attribute(t, here1), LAMBDA maybe_attrib :
        IF IsOk(maybe_attrib)
        THEN attrib_loop(t, closer, maybe_attrib.v.end,
                         Append(attribs, maybe_attrib.v))
        ELSE IF maybe_attrib.e = BadChar(closer)
             THEN Ok([here |-> here1, attribs |-> attribs])
             ELSE maybe_attrib)))

-----------------------------------------------------------------------------
(* Tags *)

parse_empty_elem(t, s) ==
    IF ~Has(t, s) THEN Err(TextEnd)
    ELSE IF Get(t, s) # "<" THEN Err(BadChar(Get(t, s)))
    ELSE Bind(parse_name(t, s + 1), LAMBDA name :
      IF ~IsOk(name) THEN name
      ELSE Bind(s + 1 + StrLen(name.v), LAMBDA pos :
        IF ~Has(t, pos) THEN Err(TextEnd)
        ELSE IF Get(t, pos) = "/" THEN
          IF ~Has(t, pos + 1) THEN Err(TextEnd)
          ELSE IF Get(t, pos + 1) = ">"
               THEN Ok([start |-> s, end |-> pos + 2, name |-> name.v,
                        attribs |-> <<>>])
               ELSE Err(BadChar(Get(t, pos + 1)))
        ELSE Bind(attrib_loop(t, "/", pos, <<>>), LAMBDA lp :
          IF ~IsOk(lp) THEN lp
          ELSE Bind(lp.v.here, LAMBDA here :
            IF ~Has(t, here) THEN Err(TextEnd)
            ELSE IF Get(t, here) = "/" THEN
              IF ~Has(t, here + 1) THEN Err(TextEnd)
              ELSE IF Get(t, here + 1) = ">"
                   THEN Ok([start |-> s, end |-> here + 2, name |-> name.v,
                            attribs |-> lp.v.attribs])
                   ELSE Err(BadChar(Get(t, here + 1)))
            ELSE Err(BadChar(Get(t, here)))))))

parse_starttag(t, s) ==
    IF ~Has(t, s) THEN Err(TextEnd)
    ELSE IF Get(t, s) # "<" THEN Err(BadChar(Get(t, s)))
    ELSE Bind(parse_name(t, s + 1), LAMBDA name :
      IF ~IsOk(name) THEN name
      ELSE Bind(s + 1 + StrLen(name.v), LAMBDA pos :
        IF ~Has(t, pos) THEN Err(TextEnd)
        ELSE IF Get(t, pos) = ">"
        THEN Ok([start |-> s, end |-> pos + 1, name |-> name.v,
                 attribs |-> <<>>])
        ELSE Bind(attrib_loop(t, ">", pos, <<>>), LAMBDA lp :
          IF ~IsOk(lp) THEN lp
          ELSE Bind(lp.v.here, LAMBDA here :
            IF ~Has(t, here) THEN Err(TextEnd)
            ELSE IF Get(t, here) = ">"
                 THEN Ok([start |-> s, end |-> here + 1, name |-> name.v,
                          attribs |-> lp.v.attribs])
                 ELSE Err(BadChar(Get(t, here)))))))

parse_endtag(t, s) ==
    IF ~Has(t, s) THEN Err(TextEnd)
    ELSE IF Get(t, s) # "<" THEN Err(BadChar(Get(t, s)))
    ELSE IF ~Has(t, s + 1) THEN Err(TextEnd)
    ELSE IF Get(t, s + 1) # "/" THEN Err(BadChar(Get(t, s + 1)))
    ELSE Bind(parse_name(t, s + 2), LAMBDA name :
      IF ~IsOk(name) THEN name
      ELSE Bind(skip_ws(t, s + 2 + StrLen(name.v)), LAMBDA closepos :
        IF ~Has(t, closepos) THEN Err(TextEnd)
        ELSE IF Get(t, closepos) = ">"
             THEN Ok([start |-> s, end |-> closepos + 1, name |-> name.v])
             ELSE Err(BadChar(Get(t, closepos)))))

-----------------------------------------------------------------------------
(* Elements and content *)

EmptyOf(e) == [kind |-> "Empty", empty |-> e]
FullOf(f)  == [kind |-> "Full", full |-> f]

Elem_get_endpos(elem) ==
    IF elem.kind = "Empty" THEN elem.empty.end   \* EmptyElem: self.end
    ELSE elem.full.end.end                       \* FullElem: self.end.get_endpos()

ContentItem_get_endpos(item) ==
    CASE item.kind = "Elem"      -> Elem_get_endpos(item.elem)
      [] item.kind = "Reference" -> item.start + Reference_text_len(item.reference)
      [] item.kind = "ProcInstr" -> ProcInstr_get_endpos(item.pi)
      [] item.kind = "Comment"   -> Comment_get_endpos(item.comment)
      [] item.kind = "CharData"  -> CharData_get_endpos(item.chardata)
      [] item.kind = "CDSect"    -> CDSect_get_endpos(item.cdsect)

Content_get_endpos(content) ==
    IF content.items = <<>> THEN content.start
    ELSE ContentItem_get_endpos(Last(content.items))

RECURSIVE parse_elem(_, _, _)
RECURSIVE parse_full_elem(_, _, _)
RECURSIVE parse_content_item(_, _, _)
RECURSIVE content_loop(_, _, _, _, _)

\* The alternatives in the order the source tries them; an alternative that
\* aborts aborts the call.
parse_content_item(t, s, recurdepth) ==
    Bind(parse_reference(t, s), LAMBDA reference :
    IF IsOk(reference)
    THEN Ok([kind |-> "Reference", start |-> s, reference |-> reference.v])
    ELSE Bind(parse_comment(t, s), LAMBDA comment :
    IF IsOk(comment) THEN Ok([kind |-> "Comment", comment |-> comment.v])
    ELSE Bind(parse_pi(t, s), LAMBDA pi :
    IF IsOk(pi) THEN Ok([kind |-> "ProcInstr", pi |-> pi.v])
    ELSE Bind(parse_chardata(t, s), LAMBDA chardata :
    IF IsOk(chardata) THEN Ok([kind |-> "CharData", chardata |-> chardata.v])
    ELSE Bind(parse_cdsect(t, s), LAMBDA cdsect :
    IF IsPanic(cdsect) THEN Panic
    ELSE IF IsOk(cdsect) THEN Ok([kind |-> "CDSect", cdsect |-> cdsect.v])
    ELSE Bind(parse_elem(t, s, recurdepth + 1), LAMBDA elem :
    IF IsPanic(elem) THEN Panic
    ELSE IF IsOk(elem) THEN Ok([kind |-> "Elem", elem |-> elem.v])
    ELSE Err(NoValidVariant)))))))

\* The loop of parse_content resuming on the last character of a child element.
content_loop_overlap(t, s, position, items, recurdepth) ==
    Bind(parse_content_item(t, position, recurdepth + 1), LAMBDA item :
    IF IsPanic(item) THEN Panic
    ELSE IF IsOk(item)
         THEN content_loop(t, s,
                           IF item.v.kind = "Elem"
                           THEN ContentItem_get_endpos(item.v) - 1
                           ELSE ContentItem_get_endpos(item.v),
                           Append(items, item.v), recurdepth)
         ELSE Ok([start |-> s, items |-> items]))

\* The loop of parse_content: position and items are its variables.
content_loop(t, s, position, items, recurdepth) ==
    Bind(parse_content_item(t, position, recurdepth + 1), LAMBDA item :
    IF IsPanic(item) THEN Panic
    ELSE IF IsOk(item)
         THEN content_loop(t, s, ContentItem_get_endpos(item.v),
                           Append(items, item.v), recurdepth)
         ELSE Ok([start |-> s, items |-> items]))

parse_content(t, s, recurdepth) == content_loop(t, s, s, <<>>, recurdepth)

\* parse_full_elem comparing the two names without regard to case.
parse_full_elem_nocase(t, s, recurdepth) ==
    Bind(parse_starttag(t, s), LAMBDA stag :
    IF ~IsOk(stag) THEN stag
    ELSE Bind(stag.v.end, LAMBDA pos :
         Bind(parse_content(t, pos, recurdepth + 1), LAMBDA maybe_content :
      IF IsPanic(maybe_content) THEN Panic
      ELSE Bind(IF IsOk(maybe_content) THEN Some(maybe_content.v) ELSE None,
                LAMBDA content :
           Bind(IF IsOk(maybe_content)
                THEN Content_get_endpos(maybe_content.v) ELSE pos,
                LAMBDA pos2 :
           Bind(parse_endtag(t, pos2), LAMBDA etag :
        IF ~IsOk(etag) THEN etag
        ELSE IF to_lowercase(stag.v.name) # to_lowercase(etag.v.name)
             THEN Err(MismatchedTags(stag.v.name, etag.v.name))
             ELSE Ok([start |-> stag.v, content |-> content,
                      end |-> etag.v])))))))

parse_full_elem(t, s, recurdepth) ==
    Bind(parse_starttag(t, s), LAMBDA stag :
    IF ~IsOk(stag) THEN stag
    ELSE Bind(stag.v.end, LAMBDA pos :
         Bind(parse_content(t, pos, recurdepth + 1), LAMBDA maybe_content :
      IF IsPanic(maybe_content) THEN Panic
      ELSE Bind(IF IsOk(maybe_content) THEN Some(maybe_content.v) ELSE None,
                LAMBDA content :
           Bind(IF IsOk(maybe_content)
                THEN Content_get_endpos(maybe_content.v) ELSE pos,
                LAMBDA pos2 :
           Bind(parse_endtag(t, pos2), LAMBDA etag :
        IF ~IsOk(etag) THEN etag
        ELSE IF stag.v.name # etag.v.name
             THEN Err(MismatchedTags(stag.v.name, etag.v.name))
             ELSE Ok([start |-> stag.v, content |-> content,
                      end |-> etag.v])))))))

\* parse_elem trying the full form after every failure of the empty form.
parse_elem_alwaysfull(t, s, recurdepth) ==
    Bind(parse_empty_elem(t, s), LAMBDA maybe_empty :
    IF IsOk(maybe_empty) THEN Ok(EmptyOf(maybe_empty.v))
    ELSE Bind(parse_full_elem(t, s, recurdepth + 1), LAMBDA maybe_full :
      IF IsOk(maybe_full) THEN Ok(FullOf(maybe_full.v)) ELSE maybe_full))

parse_elem(t, s, recurdepth) ==
    Bind(parse_empty_elem(t, s), LAMBDA maybe_empty :
    IF IsOk(maybe_empty) THEN Ok(EmptyOf(maybe_empty.v))
    ELSE IF maybe_empty.e = TextEnd THEN maybe_empty
    ELSE Bind(parse_full_elem(t, s, recurdepth + 1), LAMBDA maybe_full :
      IF IsOk(maybe_full) THEN Ok(FullOf(maybe_full.v)) ELSE maybe_full))

-----------------------------------------------------------------------------
(* The XML declaration *)

DigitVal(c) ==
    CASE c = "0" -> 0 [] c = "1" -> 1 [] c = "2" -> 2 [] c = "3" -> 3
      [] c = "4" -> 4 [] c = "5" -> 5 [] c = "6" -> 6 [] c = "7" -> 7
      [] c = "8" -> 8 [] c = "9" -> 9

RECURSIVE DecVal(_)
DecVal(s) == IF s = <<>> THEN 0 ELSE 10 * DecVal(Front(s)) + DigitVal(Last(s))

RECURSIVE Pow10(_)
Pow10(n) == IF n = 0 THEN 1 ELSE 10 * Pow10(n - 1)

RECURSIVE until_dot(_)
until_dot(s) ==
    IF s = <<>> \/ Head(s) = "." THEN <<>> ELSE <<Head(s)>> \o until_dot(Tail(s))

RECURSIVE strip_zeros(_)
strip_zeros(s) ==
    IF s # <<>> /\ Last(s) = "0" THEN strip_zeros(Front(s)) ELSE s

\* str::parse::<f32>() on an arena of digits with at most one '.', which is all
\* parse_version pushes. It fails on a numeral without any digit ("" and "."),
\* and otherwise yields the f32 nearest to the decimal value. The f32 is kept as
\* its integer part and its fraction digits; the rounding is the one that
\* matters to the comparison with 2.0: a value of 1.f at most 2^-24 below 2
\* is nearer to 2.0 than to the largest f32 below it (ties go to the even 2.0),
\* that is (10^k - f) * 2^24 <= 10^k for k fraction digits f.
parse_f32(arena) ==
    LET ip == until_dot(arena)
        fp == IF Len(ip) = Len(arena) THEN <<>>
              ELSE SubSeq(arena, Len(ip) + 2, Len(arena))
        i  == DecVal(ip)
        n  == Pow10(Len(fp))
        up == i = 1 /\ (n - DecVal(fp)) <= (n \div 16777216)
    IN IF Len(ip) + Len(fp) = 0 THEN Err("ParseFloatError")
       ELSE IF up THEN Ok([int |-> 2, frac |-> <<>>])
       ELSE Ok([int |-> i, frac |-> strip_zeros(fp)])

\* version_num >= 2.0
f32_ge_2(x) == x.int >= 2

Version == <<"v","e","r","s","i","o","n">>

\* The numeral loop of parse_version: here, seen_dot and arena are its
\* variables, c0 the opening quote. It yields the arena and the position of
\* the closing quote.
RECURSIVE version_scan(_, _, _, _, _)
version_scan(t, c0, here, seen_dot, arena) ==
    IF ~Has(t, here) THEN Err(TextEnd)
    ELSE LET c == Get(t, here) IN
      IF c = c0 THEN Ok([here |-> here, arena |-> arena])
      ELSE IF c \in Digits
           THEN version_scan(t, c0, here + 1, seen_dot, Append(arena, c))
      ELSE IF c = "." /\ ~seen_dot
           THEN version_scan(t, c0, here + 1, TRUE, Append(arena, c))
      ELSE Err(BadChar(c))

parse_version(t, s) ==
    Bind(parse_ws(t, s), LAMBDA lead_ws :
    IF ~IsOk(lead_ws) THEN lead_ws
    ELSE Bind(Ws_get_endpos(lead_ws.v), LAMBDA pos :
      IF ~StartsWith(t, pos, Version) THEN Err(KeywordMatchFail)
      ELSE Bind(skip_ws(t, pos + Len(Version)), LAMBDA pos2 :
        IF ~Has(t, pos2) THEN Err(TextEnd)
        ELSE IF Get(t, pos2) # "=" THEN Err(BadChar(Get(t, pos2)))
        ELSE Bind(skip_ws(t, pos2 + 1), LAMBDA here :
          IF ~Has(t, here) THEN Err(TextEnd)
          ELSE Bind(Get(t, here), LAMBDA c0 :
            IF c0 # "'" /\ c0 # "\"" THEN Err(BadChar(c0))
            ELSE Bind(version_scan(t, c0, here + 1, FALSE, <<>>), LAMBDA sc :
              IF ~IsOk(sc) THEN sc
              ELSE Bind(parse_f32(sc.v.arena), LAMBDA maybe_version_num :
                IF ~IsOk(maybe_version_num) THEN Err(KeywordMatchFail)
                ELSE IF f32_ge_2(maybe_version_num.v) THEN Err(KeywordMatchFail)
                ELSE Ok([start |-> s, end |-> sc.v.here + 1,
                         ver_num |-> maybe_version_num.v]))))))))

parse_eq(t, s) ==
    Bind(skip_ws(t, s), LAMBDA pos1 :
    IF ~Has(t, pos1) THEN Err(TextEnd)
    ELSE IF Get(t, pos1) = "="
         THEN Ok([start |-> s, end |-> skip_ws(t, pos1 + 1)])
         ELSE Err(BadChar(Get(t, pos1))))

EncodingKw == <<"e","n","c","o","d","i","n","g">>

\* The name loop of parse_encoding: here, first and arena are its variables.
RECURSIVE encoding_scan(_, _, _, _, _)
encoding_scan(t, c0, here, first, arena) ==
    IF ~Has(t, here) THEN Err(TextEnd)
    ELSE LET c == Get(t, here) IN
      IF c = c0 THEN Ok([here |-> here, arena |-> arena])
      ELSE IF first
        THEN IF c \in UpperAZ \cup LowerAZ
             THEN encoding_scan(t, c0, here + 1, FALSE, Append(arena, c))
             ELSE Err(BadChar(c))
        ELSE IF c \in UpperAZ \cup LowerAZ \cup Digits \cup {".", "_", "-"}
             THEN encoding_scan(t, c0, here + 1, FALSE, Append(arena, c))
             ELSE Err(BadChar(c))

parse_encoding(t, s) ==
    Bind(parse_ws(t, s), LAMBDA lead_ws :
    IF ~IsOk(lead_ws) THEN lead_ws
    ELSE Bind(Ws_get_endpos(lead_ws.v), LAMBDA pos :
      IF ~StartsWith(t, pos, EncodingKw) THEN Err(KeywordMatchFail)
      ELSE Bind(parse_eq(t, pos + Len(EncodingKw)), LAMBDA eq :
        IF ~IsOk(eq) THEN eq
        ELSE Bind(eq.v.end, LAMBDA pos2 :
          IF ~Has(t, pos2) THEN Err(TextEnd)
          ELSE Bind(Get(t, pos2), LAMBDA c0 :
            IF c0 # "\"" /\ c0 # "'" THEN Err(BadChar(c0))
            ELSE Bind(encoding_scan(t, c0, pos2 + 1, TRUE, <<>>), LAMBDA sc :
              IF ~IsOk(sc) THEN sc
              ELSE Ok([start |-> s, end |-> sc.v.here + 1,
                       enc_name |-> sc.v.arena])))))))

Standalone == <<"s","t","a","n","d","a","l","o","n","e">>
needle1 == <<"\"", "y", "e", "s", "\"">>
needle2 == <<"'", "y", "e", "s", "'">>
needle3 == <<"\"", "n", "o", "\"">>
needle4 == <<"'", "n", "o", "'">>

\* subtext is text[pos..], at the keyword; subtext2 is text[pos2..], at the
\* value. The fourth test of the source reads subtext.
parse_standalone(t, s) ==
    Bind(parse_ws(t, s), LAMBDA lead_ws :
    IF ~IsOk(lead_ws) THEN lead_ws
    ELSE Bind(Ws_get_endpos(lead_ws.v), LAMBDA pos :
      IF ~StartsWith(t, pos, Standalone) THEN Err(KeywordMatchFail)
      ELSE Bind(parse_eq(t, pos + Len(Standalone)), LAMBDA eq :
        IF ~IsOk(eq) THEN eq
        ELSE Bind(eq.v.end, LAMBDA pos2 :
          IF StartsWith(t, pos2, needle1)
          THEN Ok([start |-> s, end |-> pos2 + 5, is_standalone |-> TRUE])
          ELSE IF StartsWith(t, pos2, needle2)
          THEN Ok([start |-> s, end |-> pos2 + 5, is_standalone |-> TRUE])
          ELSE IF StartsWith(t, pos2, needle3)
          THEN Ok([start |-> s, end |-> pos2 + 4, is_standalone |-> FALSE])
          ELSE IF StartsWith(t, pos, needle4)
          THEN Ok([start |-> s, end |-> pos2 + 4, is_standalone |-> FALSE])
          ELSE Err(KeywordMatchFail)))))

XmlNeedle == <<"<", "?", "x", "m", "l">>

\* parse_xmldecl that forgets the encoding declaration it has parsed.
parse_xmldecl_noenc(t, s) ==
    IF s > Len(t) THEN Panic
    ELSE IF ~StartsWith(t, s, XmlNeedle) THEN Err(BadXDeclStart)
    ELSE Bind(parse_version(t, s + Len(XmlNeedle)), LAMBDA version :
      IF ~IsOk(version) THEN version
      ELSE Bind(parse_encoding(t, version.v.end), LAMBDA maybe_enc :
           Bind(IF IsOk(maybe_enc) THEN Some(maybe_enc.v) ELSE None, LAMBDA enc :
           Bind(IF IsOk(maybe_enc) THEN maybe_enc.v.end ELSE version.v.end,
                LAMBDA here2 :
           Bind(parse_standalone(t, here2), LAMBDA maybe_standalone :
           Bind(IF IsOk(maybe_standalone) THEN Some(maybe_standalone.v) ELSE None,
                LAMBDA sddecl :
           Bind(skip_ws(t, IF IsOk(maybe_standalone)
                           THEN maybe_standalone.v.end ELSE here2),
                LAMBDA here :
        IF ~Has(t, here) THEN Err(TextEnd)
        ELSE IF Get(t, here) # "?" THEN Err(BadChar(Get(t, here)))
        ELSE IF ~Has(t, here + 1) THEN Err(TextEnd)
        ELSE IF Get(t, here + 1) # ">" THEN Err(BadChar(Get(t, here + 1)))
        ELSE Ok([start |-> s, end |-> here + 2, version |-> version.v,
                 encoding |-> None, standalone |-> sddecl]))))))))

\* &text[start..] aborts when start is beyond the text.
parse_xmldecl(t, s) ==
    IF s > Len(t) THEN Panic
    ELSE IF ~StartsWith(t, s, XmlNeedle) THEN Err(BadXDeclStart)
    ELSE Bind(parse_version(t, s + Len(XmlNeedle)), LAMBDA version :
      IF ~IsOk(version) THEN version
      ELSE Bind(parse_encoding(t, version.v.end), LAMBDA maybe_enc :
           Bind(IF IsOk(maybe_enc) THEN Some(maybe_enc.v) ELSE None, LAMBDA enc :
           Bind(IF IsOk(maybe_enc) THEN maybe_enc.v.end ELSE version.v.end,
                LAMBDA here2 :
           Bind(parse_standalone(t, here2), LAMBDA maybe_standalone :
           Bind(IF IsOk(maybe_standalone) THEN Some(maybe_standalone.v) ELSE None,
                LAMBDA sddecl :
           Bind(skip_ws(t, IF IsOk(maybe_standalone)
                           THEN maybe_standalone.v.end ELSE here2),
                LAMBDA here :
        IF ~Has(t, here) THEN Err(TextEnd)
        ELSE IF Get(t, here) # "?" THEN Err(BadChar(Get(t, here)))
        ELSE IF ~Has(t, here + 1) THEN Err(TextEnd)
        ELSE IF Get(t, here + 1) # ">" THEN Err(BadChar(Get(t, here + 1)))
        ELSE Ok([start |-> s, end |-> here + 2, version |-> version.v,
                 encoding |-> enc, standalone |-> sddecl]))))))))

-----------------------------------------------------------------------------
(* Misc items and the document trailer *)

parse_misc(t, s) ==
    Bind(parse_ws(t, s), LAMBDA ws :
    IF IsOk(ws) THEN Ok([kind |-> "Ws", ws |-> ws.v])
    ELSE Bind(parse_comment(t, s), LAMBDA comment :
    IF IsOk(comment) THEN Ok([kind |-> "Comment", comment |-> comment.v])
    ELSE Bind(parse_pi(t, s), LAMBDA pi :
    IF IsOk(pi) THEN Ok([kind |-> "ProcInstr", pi |-> pi.v])
    ELSE IF ~Has(t, s) THEN Err(TextEnd)
    ELSE Err(NoValidVariant))))

Misc_get_endpos(misc) ==
    CASE misc.kind = "Ws"        -> Ws_get_endpos(misc.ws)
      [] misc.kind = "Comment"   -> Comment_get_endpos(misc.comment)
      [] misc.kind = "ProcInstr" -> ProcInstr_get_endpos(misc.pi)

\* A `while let Ok(misc) = parse_misc(text, here)` loop: the items and the
\* position at which parse_misc first fails, with that failure.
RECURSIVE misc_loop(_, _, _)
misc_loop(t, here, miscs) ==
    Bind(parse_misc(t, here), LAMBDA misc :
    IF IsOk(misc) THEN misc_loop(t, Misc_get_endpos(misc.v), Append(miscs, misc.v))
    ELSE [here |-> here, miscs |-> miscs, last |-> misc])

\* parse_tail returning the items whatever the failure that ended the loop.
parse_tail_lenient(t, s) ==
    Bind(misc_loop(t, s, <<>>), LAMBDA lp : Ok(lp.miscs))

parse_tail(t, s) ==
    Bind(misc_loop(t, s, <<>>), LAMBDA lp :
    IF lp.last.e = TextEnd THEN Ok(lp.miscs) ELSE lp.last)

-----------------------------------------------------------------------------
(* The document type declaration *)

\* The loop of parse_syslit: here and arena are its variables.
RECURSIVE syslit_scan(_, _, _, _)
syslit_scan(t, single_qoute, here, arena) ==
    IF ~Has(t, here) THEN Err(TextEnd)
    ELSE LET c == Get(t, here) IN
      IF (c = "'" /\ single_qoute) \/ (c = "\"" /\ ~single_qoute) THEN Ok(arena)
      ELSE syslit_scan(t, single_qoute, here + 1, Append(arena, c))

parse_syslit(t, s) ==
    IF ~Has(t, s) THEN Err(TextEnd)
    ELSE IF Get(t, s) = "\"" \/ Get(t, s) = "'"
         THEN syslit_scan(t, Get(t, s) = "'", s + 1, <<>>)
         ELSE Err(BadChar(Get(t, s)))

PubidChars ==
    {" ", "\r", "\n"} \cup LowerAZ \cup UpperAZ \cup Digits
      \cup {"-", "(", ")", "+", ",", ".", "/", ":", "=", "?", ";", "!", "*",
            "#", "@", "$", "_", "%"}

\* The loop of parse_pubidlit. A '"' inside a single-quoted literal matches
\* the second arm, which neither returns nor pushes.
RECURSIVE pubidlit_scan(_, _, _, _)
pubidlit_scan(t, single_qoute, here, arena) ==
    IF ~Has(t, here) THEN Err(TextEnd)
    ELSE LET c == Get(t, here) IN
      IF c = "'" THEN
        IF single_qoute THEN Ok(arena)
        ELSE pubidlit_scan(t, single_qoute, here + 1, Append(arena, c))
      ELSE IF c = "\"" THEN
        IF ~single_qoute THEN Ok(arena)
        ELSE pubidlit_scan(t, single_qoute, here + 1, arena)
      ELSE IF c \in PubidChars
        THEN pubidlit_scan(t, single_qoute, here + 1, Append(arena, c))
      ELSE Err(BadChar(c))

parse_pubidlit(t, s) ==
    IF ~Has(t, s) THEN Err(TextEnd)
    ELSE IF Get(t, s) = "\"" \/ Get(t, s) = "'"
         THEN pubidlit_scan(t, Get(t, s) = "'", s + 1, <<>>)
         ELSE Err(BadChar(Get(t, s)))

SystemKw == <<"S","Y","S","T","E","M">>
PublicKw == <<"P","U","B","L","I","C">>

\* &text[start..] aborts when start is beyond the text.
parse_externalid(t, s) ==
    IF s > Len(t) THEN Panic
    ELSE IF StartsWith(t, s, SystemKw) THEN
      Bind(parse_ws(t, s + Len(SystemKw)), LAMBDA spacer :
      IF ~IsOk(spacer) THEN spacer
      ELSE Bind(Ws_get_endpos(spacer.v), LAMBDA syslit_start :
           Bind(parse_syslit(t, syslit_start), LAMBDA syslit :
           IF ~IsOk(syslit) THEN syslit
           ELSE Ok([kind |-> "System", start |-> s,
                    end |-> syslit_start + StrLen(syslit.v) + 2,
                    sys_lit |-> syslit.v]))))
    ELSE IF StartsWith(t, s, PublicKw) THEN
      Bind(parse_ws(t, s + Len(PublicKw)), LAMBDA spacer1 :
      IF ~IsOk(spacer1) THEN spacer1
      ELSE Bind(Ws_get_endpos(spacer1.v), LAMBDA pubid_start :
           Bind(parse_pubidlit(t, pubid_start), LAMBDA pubid_lit :
        IF ~IsOk(pubid_lit) THEN pubid_lit
        ELSE Bind(pubid_start + StrLen(pubid_lit.v) + 2, LAMBDA pubid_end :
             Bind(parse_ws(t, pubid_end), LAMBDA spacer2 :
          IF ~IsOk(spacer2) THEN spacer2
          ELSE Bind(Ws_get_endpos(spacer2.v), LAMBDA syslit_start :
               Bind(parse_syslit(t, syslit_start), LAMBDA syslit :
               IF ~IsOk(syslit) THEN syslit
               ELSE Ok([kind |-> "Public", start |-> s,
                        end |-> syslit_start + StrLen(syslit.v) + 2,
                        pub_lit |-> pubid_lit.v, sys_lit |-> syslit.v]))))))))
    ELSE Err(KeywordMatchFail)

parse_pereference(t, s) ==
    IF ~Has(t, s) THEN Err(TextEnd)
    ELSE IF Get(t, s) # "%" THEN Err(BadChar(Get(t, s)))
    ELSE Bind(parse_name(t, s + 1), LAMBDA name :
      IF ~IsOk(name) THEN name
      ELSE Bind(s + 1 + StrLen(name.v), LAMBDA pos1 :
        IF ~Has(t, pos1) THEN Err(TextEnd)
        ELSE IF Get(t, pos1) = ";" THEN Ok(name.v)
        ELSE Err(BadChar(Get(t, pos1)))))

\* The four declaration parsers are unimplemented!() in the source.
parse_elemdecl(t, s)     == Panic
parse_attlistdecl(t, s)  == Panic
parse_entitydecl(t, s)   == Panic
parse_notationdecl(t, s) == Panic

\* The alternatives in the order the source tries them: the first one that
\* neither whitespace nor a parameter-entity reference stops is parse_elemdecl.
parse_int_subset_item(t, s) ==
    Bind(parse_ws(t, s), LAMBDA ws :
    IF IsOk(ws) THEN Ok([kind |-> "Blank", ws |-> ws.v])
    ELSE Bind(parse_pereference(t, s), LAMBDA peref :
    IF IsOk(peref) THEN Ok([kind |-> "PEReference", name |-> peref.v])
    ELSE Bind(parse_elemdecl(t, s), LAMBDA elemdecl :
    IF IsPanic(elemdecl) THEN Panic
    ELSE IF IsOk(elemdecl) THEN Ok([kind |-> "ElemDecl"])
    ELSE Bind(parse_attlistdecl(t, s), LAMBDA attlist :
    IF IsPanic(attlist) THEN Panic
    ELSE IF IsOk(attlist) THEN Ok([kind |-> "AttlistDecl"])
    ELSE Bind(parse_entitydecl(t, s), LAMBDA entity :
    IF IsPanic(entity) THEN Panic
    ELSE IF IsOk(entity) THEN Ok([kind |-> "EntityDecl"])
    ELSE Bind(parse_notationdecl(t, s), LAMBDA notation :
    IF IsPanic(notation) THEN Panic
    ELSE IF IsOk(notation) THEN Ok([kind |-> "NotationDecl"])
    ELSE Bind(parse_pi(t, s), LAMBDA proc_instr :
    IF IsOk(proc_instr) THEN Ok([kind |-> "ProcInstr", pi |-> proc_instr.v])
    ELSE Bind(parse_comment(t, s), LAMBDA comment :
    IF IsOk(comment) THEN Ok([kind |-> "Comment", comment |-> comment.v])
    ELSE Err(NoValidVariant)))))))))

\* IntSubsetItem::get_endpos and IntSubset::get_endpos are unimplemented!().
IntSubsetItem_get_endpos(item) == Panic
IntSubset_get_endpos(subset)   == Panic

\* The loop of parse_intsubset asks the item it has parsed for its end.
parse_intsubset(t, s) ==
    Bind(parse_int_subset_item(t, s), LAMBDA item :
    IF IsPanic(item) THEN Panic
    ELSE IF IsOk(item) THEN IntSubsetItem_get_endpos(item.v)
    ELSE Err(NoData))

Doctype == <<"<","!","D","O","C","T","Y","P","E">>

\* The end of parse_doctype, from the position after the optional whitespace
\* that follows the optional external identifier.
doctype_close(t, s, name, extid, here) ==
    IF ~Has(t, here) THEN Err(TextEnd)
    ELSE Bind(Get(t, here), LAMBDA c0 :
      IF c0 = "[" THEN
        Bind(parse_intsubset(t, here + 1), LAMBDA maybe_intsub :
        IF IsPanic(maybe_intsub) THEN Panic
        ELSE IF IsOk(maybe_intsub) THEN IntSubset_get_endpos(maybe_intsub.v)
        ELSE Bind(here + 1, LAMBDA here1 :
          IF ~Has(t, here1) THEN Err(TextEnd)
          ELSE IF Get(t, here1) # "]" THEN Err(BadChar(Get(t, here1)))
          ELSE Bind(skip_ws(t, here1 + 1), LAMBDA here2 :
            IF ~Has(t, here2) THEN Err(TextEnd)
            ELSE IF Get(t, here2) = ">"
                 THEN Ok([start |-> s, end |-> here2 + 1, name |-> name,
                          ext_id |-> extid, int_subset |-> None])
                 ELSE Err(BadChar(Get(t, here2))))))
      ELSE IF c0 = ">"
           THEN Ok([start |-> s, end |-> here + 1, name |-> name,
                    ext_id |-> extid, int_subset |-> None])
           ELSE Err(BadChar(c0)))

\* &text[start..] aborts when start is beyond the text.
parse_doctype(t, s) ==
    IF s > Len(t) THEN Panic
    ELSE IF ~StartsWith(t, s, Doctype) THEN Err(KeywordMatchFail)
    ELSE Bind(parse_ws(t, s + Len(Doctype)), LAMBDA spacer1 :
      IF ~IsOk(spacer1) THEN spacer1
      ELSE Bind(Ws_get_endpos(spacer1.v), LAMBDA here0 :
           Bind(parse_name(t, here0), LAMBDA name :
        IF ~IsOk(name) THEN name
        ELSE Bind(skip_ws(t, here0 + StrLen(name.v)), LAMBDA here1 :
             Bind(parse_externalid(t, here1), LAMBDA maybe_extid :
          IF IsPanic(maybe_extid) THEN Panic
          ELSE doctype_close(t, s, name.v,
                             IF IsOk(maybe_extid) THEN Some(maybe_extid.v) ELSE None,
                             skip_ws(t, IF IsOk(maybe_extid)
                                        THEN maybe_extid.v.end ELSE here1)))))))

-----------------------------------------------------------------------------
(* The prolog and the document *)

\* impl Ends for Prolog
Prolog_get_endpos(prolog) == 0

\* parse_prolog whose second misc loop collects into a list of its own.
prolog_scan_freshlist(t, s) ==
    Bind(parse_xmldecl(t, s), LAMBDA maybe_decl :
    IF IsPanic(maybe_decl) THEN Panic
    ELSE Bind(IF IsOk(maybe_decl) THEN Some(maybe_decl.v) ELSE None, LAMBDA xdecl :
         Bind(IF IsOk(maybe_decl) THEN maybe_decl.v.end ELSE s, LAMBDA pos :
         Bind(misc_loop(t, pos, <<>>), LAMBDA lp1 :
         Bind(parse_doctype(t, lp1.here), LAMBDA maybe_doctypedecl :
      IF IsPanic(maybe_doctypedecl) THEN Panic
      ELSE Bind(IF IsOk(maybe_doctypedecl) THEN Some(maybe_doctypedecl.v) ELSE None,
                LAMBDA docdecl :
           Bind(IF IsOk(maybe_doctypedecl)
                THEN maybe_doctypedecl.v.end ELSE lp1.here,
                LAMBDA pos1 :
           Bind(misc_loop(t, pos1, <<>>), LAMBDA lp2 :
           Ok([xml_decl |-> xdecl, doctype_decl |-> docdecl,
               miscs |-> lp2.miscs, here2 |-> lp2.here])))))))))

\* parse_prolog up to its last misc loop: the declarations, the misc items of
\* both loops, and here2, the position at which the second loop stops.
prolog_scan(t, s) ==
    Bind(parse_xmldecl(t, s), LAMBDA maybe_decl :
    IF IsPanic(maybe_decl) THEN Panic
    ELSE Bind(IF IsOk(maybe_decl) THEN Some(maybe_decl.v) ELSE None, LAMBDA xdecl :
         Bind(IF IsOk(maybe_decl) THEN maybe_decl.v.end ELSE s, LAMBDA pos :
         Bind(misc_loop(t, pos, <<>>), LAMBDA lp1 :
         Bind(parse_doctype(t, lp1.here), LAMBDA maybe_doctypedecl :
      IF IsPanic(maybe_doctypedecl) THEN Panic
      ELSE Bind(IF IsOk(maybe_doctypedecl) THEN Some(maybe_doctypedecl.v) ELSE None,
                LAMBDA docdecl :
           Bind(IF IsOk(maybe_doctypedecl)
                THEN maybe_doctypedecl.v.end ELSE lp1.here,
                LAMBDA pos1 :
           Bind(misc_loop(t, pos1, lp1.miscs), LAMBDA lp2 :
           Ok([xml_decl |-> xdecl, doctype_decl |-> docdecl,
               miscs |-> lp2.miscs, here2 |-> lp2.here])))))))))

\* The Prolog keeps the declarations and the misc items, not the position.
parse_prolog(t, s) ==
    Bind(prolog_scan(t, s), LAMBDA sc :
    IF ~IsOk(sc) THEN sc
    ELSE Ok([xml_decl |-> sc.v.xml_decl, doctype_decl |-> sc.v.doctype_decl,
             miscs |-> sc.v.miscs]))

parse_doc(t) ==
    Bind(parse_prolog(t, 0), LAMBDA prolog :
    IF ~IsOk(prolog) THEN prolog
    ELSE Bind(Prolog_get_endpos(prolog.v), LAMBDA p_end :
         Bind(parse_elem(t, p_end, 0), LAMBDA elem :
      IF ~IsOk(elem) THEN elem
      ELSE Bind(Elem_get_endpos(elem.v), LAMBDA e_end :
           Bind(parse_tail(t, e_end), LAMBDA tail :
           IF ~IsOk(tail) THEN tail
           ELSE Ok([prolog |-> prolog.v, elem |-> elem.v, tail |-> tail.v]))))))

-----------------------------------------------------------------------------
(* The inputs: each family draws its texts from a set of tokens *)

\* How many tokens a text of each family is made of, at most.
MaxDocParts        == 3
MaxNodeParts       == 3
MaxElemParts       == 4
MaxCommentParts    == 6
MaxPiParts         == 4
MaxCharParts       == 5
MaxVersionParts    == 4
MaxStandaloneParts == 4
MaxXmlParts        == 5
MaxAttParts        == 4
MaxRefParts        == 5
MaxTagParts        == 5
MaxExtIdParts      == 6
MaxDoctypeParts    == 5
MaxEncParts        == 5
MaxTreeParts       == 4
\* The largest start offset a production is applied at.
MaxStart           == 1

EAcute == "U+00E9"

DocTokens ==
    { <<" ">>,
      <<"<","?","x","m","l"," ","v","e","r","s","i","o","n","=","'","1",".","0","'","?",">">>,
      <<"<","!","-","-","c","-","-",">">>,
      <<"<","!","-","-",EAcute,"-","-",">">>,
      <<"<","?","p","?",">">>,
      <<"<","!","D","O","C","T","Y","P","E"," ","a",">">>,
      <<"<","!","D","O","C","T","Y","P","E"," ","a","["," ","]",">">>,
      <<"<","a","/",">">>,
      <<"<","a",">">>,
      <<"<","/","a",">">>,
      <<"x">>,
      <<"&","#","1">>,
      <<"<","?","x","m","l","?",">">>,
      <<"<","!","D","O","C","T","Y","P","E",">">> }

NodeTokens ==
    { <<" ">>, <<"a">>, <<EAcute>>, <<"<">>, <<"&">>, <<"&","#","x","1",";">>, <<";">>,
      <<"<","!","-","-">>, <<"-","-",">">>,
      <<"<","?">>, <<"?",">">>,
      StartNeedle, <<"]","]",">">>, <<"]">> }

ElemTokens ==
    { <<"<","a",">">>, <<"<","A",">">>, <<"<","b"," ","c","=","'","1","'",">">>,
      <<"<","/","a",">">>, <<"<","/","A",">">>, <<"<","/","b"," ",">">>,
      <<"<","a","b",">">>, <<"x">>, <<"<","c","/",">">>, <<"&","e",";">>,
      <<"<","/","c",">">> }

CommentTokens ==
    { <<"<","!","-","-">>, <<"-","-",">">>, <<"-">>, <<"a">>, <<">">> }

PiTokens ==
    { <<"<","?">>, <<"?",">">>, <<" ">>, <<"-">>, <<"s">>, <<"x">>,
      <<"x","m","l">>, <<"X","M","L">>, <<"x","M","l">>, <<EAcute>> }

CharTokens == { <<"]">>, <<">">>, <<"a">>, <<EAcute>>, <<"<">>, <<"&">> }

VersionTokens ==
    { <<" ","v","e","r","s","i","o","n","=">>,
      <<" ","v","e","r","s","i","o","n"," ","="," ">>,
      <<"'">>, <<"\"">>,
      <<"1",".","0">>, <<"1",".","1">>, <<"1",".","9">>, <<"0",".","5">>,
      <<"2",".","0">>, <<"2">>, <<"3",".","1">>, <<"1","0">>,
      <<"1",".","9","9","9","9","9","9","9","9">>,
      <<".">>, <<"1",".">>, <<".","5">>, <<"1",".",".">> }

StandaloneTokens ==
    { <<" ">>, <<"=">>, <<" ">> \o Standalone,
      needle1, needle2, needle3, needle4, <<"'","Y","E","S","'">> }

XmlTokens ==
    { XmlNeedle, <<"?",">">>, <<" ">>,
      <<" ","v","e","r","s","i","o","n","=","'","1",".","0","'">>,
      <<" ","v","e","r","s","i","o","n","=","\"","1",".","1","\"">>,
      <<" ","e","n","c","o","d","i","n","g","=","'","u","'">>,
      <<" ","s","t","a","n","d","a","l","o","n","e","=","'","y","e","s","'">>,
      <<" ","s","t","a","n","d","a","l","o","n","e","=","\"","n","o","\"">> }

AttTokens ==
    { <<"\"">>, <<"'">>, <<"a">>, <<EAcute>>, <<"<">>, <<"&">>,
      <<"&","e",";">>, <<"&","#","x","1",";">>, <<"&",EAcute,";">>,
      <<"b","=">>, <<";">> }

RefTokens == { <<"&">>, <<"#">>, <<"x">>, <<"1">>, <<"a">>, <<"g">>, <<EAcute>>, <<";">> }

TagTokens ==
    { <<"<","a">>, <<" ">>, <<"/">>, <<">">>, <<"<","/","a",">">>,
      <<" ","b","=","'","1","'">>, <<" ","c"," ","="," ","\"","2","\"">>,
      <<"c","=","'","2","'">>, <<" ","d","=","'",EAcute,"'">>, <<" ","b">> }

ExtIdTokens ==
    { PublicKw \o <<" ">>, SystemKw \o <<" ">>, <<"'">>, <<"\"">>, <<"a">>, <<" ">>,
      <<EAcute>> }

DoctypeTokens ==
    { Doctype \o <<" ","a">>, Doctype \o <<" ",EAcute>>, <<" ">>, <<">">>, <<"[">>,
      <<"]">>, <<" ">> \o SystemKw \o <<" ","'","s","'">>,
      <<" ">> \o PublicKw \o <<" ","'","p","'"," ","'","s","'">>,
      <<"<","!","-","-","c","-","-",">">>, <<"%","e",";">> }

EncTokens ==
    { <<" ">> \o EncodingKw \o <<"=">>, <<" ">> \o EncodingKw \o <<" ","="," ">>,
      <<"'">>, <<"\"">>, <<"u">>, <<"U">>, <<"8">>, <<"-">>, <<".">>, <<"_">>,
      <<EAcute>> }

TreeTokens ==
    { <<" ">>, <<"x">>, <<EAcute>>, <<"&","e",";">>,
      <<"<","!","-","-","c","-","-",">">>, <<"<","?","p","?",">">>,
      StartNeedle \o <<"d","]","]",">">>,
      <<"<","a",">">>, <<"<","/","a",">">>, <<"<","c","/",">">>,
      <<"b","=","'","1","'">> }

Tokens(f) ==
    CASE f = "doc"        -> DocTokens
      [] f = "node"       -> NodeTokens
      [] f = "elem"       -> ElemTokens
      [] f = "comment"    -> CommentTokens
      [] f = "pi"         -> PiTokens
      [] f = "chardata"   -> CharTokens
      [] f = "version"    -> VersionTokens
      [] f = "standalone" -> StandaloneTokens
      [] f = "xmldecl"    -> XmlTokens
      [] f = "attvalue"   -> AttTokens
      [] f = "reference"  -> RefTokens
      [] f = "tag"        -> TagTokens
      [] f = "extid"      -> ExtIdTokens
      [] f = "doctype"    -> DoctypeTokens
      [] f = "encoding"   -> EncTokens
      [] f = "tree"       -> TreeTokens

MaxParts(f) ==
    CASE f = "doc"        -> MaxDocParts
      [] f = "node"       -> MaxNodeParts
      [] f = "elem"       -> MaxElemParts
      [] f = "comment"    -> MaxCommentParts
      [] f = "pi"         -> MaxPiParts
      [] f = "chardata"   -> MaxCharParts
      [] f = "version"    -> MaxVersionParts
      [] f = "standalone" -> MaxStandaloneParts
      [] f = "xmldecl"    -> MaxXmlParts
      [] f = "attvalue"   -> MaxAttParts
      [] f = "reference"  -> MaxRefParts
      [] f = "tag"        -> MaxTagParts
      [] f = "extid"      -> MaxExtIdParts
      [] f = "doctype"    -> MaxDoctypeParts
      [] f = "encoding"   -> MaxEncParts
      [] f = "tree"       -> MaxTreeParts

Families == {"doc", "node", "elem", "comment", "pi", "chardata", "version",
             "standalone", "xmldecl", "attvalue", "reference", "tag", "extid",
             "doctype", "encoding", "tree"}

-----------------------------------------------------------------------------
(* The state machine *)

NoResult == [k |-> "None"]

InitFam(f) ==
    /\ fam = f
    /\ text = <<>>
    /\ nparts = 0
    /\ pc = "build"
    /\ call = "none"
    /\ start = 0
    /\ res = NoResult

\* The caller extends the text by one token.
AddPart ==
    /\ pc = "build"
    /\ nparts < MaxParts(fam)
    /\ \E tok \in Tokens(fam) : text' = text \o tok
    /\ nparts' = nparts + 1
    /\ UNCHANGED <<fam, pc, call, start, res>>

\* The start offsets a production is applied at: within the text or at its end.
Starts == {s \in 0..MaxStart : s <= Len(text)}
\* The families of element and attribute texts apply theirs at offset 0.
StartsOf(f) == IF f = "tree" THEN Starts ELSE {0}

\* The production named name has been applied at offset s and returned r.
Returns(name, s, r) ==
    /\ pc = "build"
    /\ pc' = "done"
    /\ call' = name
    /\ start' = s
    /\ res' = r
    /\ UNCHANGED <<fam, text, nparts>>

Call_parse_doc == fam = "doc" /\ Returns("parse_doc", 0, parse_doc(text))
Call_parse_prolog == fam = "doc" /\ Returns("parse_prolog", 0, parse_prolog(text, 0))
Call_parse_tail == fam = "doc" /\ \E s \in Starts : Returns("parse_tail", s, parse_tail(text, s))

Call_parse_ws        == fam = "node" /\ \E s \in Starts : Returns("parse_ws", s, parse_ws(text, s))
Call_parse_comment   == fam \in {"node", "comment"} /\ \E s \in Starts : Returns("parse_comment", s, parse_comment(text, s))
Call_parse_pi        == fam \in {"node", "pi"} /\ \E s \in Starts : Returns("parse_pi", s, parse_pi(text, s))
Call_parse_chardata  == fam \in {"node", "chardata"} /\ \E s \in Starts : Returns("parse_chardata", s, parse_chardata(text, s))
Call_parse_cdsect    == fam = "node" /\ \E s \in Starts : Returns("parse_cdsect", s, parse_cdsect(text, s))
Call_parse_reference == fam \in {"node", "reference"} /\ \E s \in Starts : Returns("parse_reference", s, parse_reference(text, s))

Call_parse_content   == fam \in {"node", "elem", "tree"} /\ \E s \in Starts : Returns("parse_content", s, parse_content(text, s, 0))

Call_parse_full_elem == fam = "elem" /\ Returns("parse_full_elem", 0, parse_full_elem(text, 0, 0))
Call_parse_elem      == fam \in {"elem", "tag", "tree"} /\ \E s \in StartsOf(fam) : Returns("parse_elem", s, parse_elem(text, s, 0))

Call_parse_attvalue   == fam = "attvalue" /\ \E s \in Starts : Returns("parse_attvalue", s, parse_attvalue(text, s))
Call_parse_attribute  == fam \in {"attvalue", "tree"} /\ \E s \in StartsOf(fam) : Returns("parse_attribute", s, parse_attribute(text, s))
Call_parse_starttag   == fam = "tag" /\ Returns("parse_starttag", 0, parse_starttag(text, 0))
Call_parse_empty_elem == fam = "tag" /\ Returns("parse_empty_elem", 0, parse_empty_elem(text, 0))

Call_parse_version    == fam = "version" /\ Returns("parse_version", 0, parse_version(text, 0))
Call_parse_standalone == fam = "standalone" /\ Returns("parse_standalone", 0, parse_standalone(text, 0))
Call_parse_xmldecl    == fam = "xmldecl" /\ \E s \in Starts : Returns("parse_xmldecl", s, parse_xmldecl(text, s))

Call_parse_content_item == fam \in {"tree", "node"} /\ \E s \in Starts : Returns("parse_content_item", s, parse_content_item(text, s, 0))
Call_parse_misc         == fam \in {"tree", "node"} /\ \E s \in Starts : Returns("parse_misc", s, parse_misc(text, s))

Call_parse_encoding   == fam = "encoding" /\ Returns("parse_encoding", 0, parse_encoding(text, 0))

Call_parse_pubidlit   == fam = "extid" /\ \E s \in Starts : Returns("parse_pubidlit", s, parse_pubidlit(text, s))
Call_parse_externalid == fam = "extid" /\ Returns("parse_externalid", 0, parse_externalid(text, 0))
Call_parse_doctype    == fam = "doctype" /\ Returns("parse_doctype", 0, parse_doctype(text, 0))

Init == \E f \in Families : InitFam(f)

Next ==
    \/ AddPart
    \/ Call_parse_doc
    \/ Call_parse_ws
    \/ Call_parse_comment
    \/ Call_parse_pi
    \/ Call_parse_chardata
    \/ Call_parse_cdsect
    \/ Call_parse_reference
    \/ Call_parse_full_elem
    \/ Call_parse_version
    \/ Call_parse_standalone
    \/ Call_parse_xmldecl
    \/ Call_parse_prolog
    \/ Call_parse_tail
    \/ Call_parse_content
    \/ Call_parse_elem
    \/ Call_parse_attvalue
    \/ Call_parse_attribute
    \/ Call_parse_starttag
    \/ Call_parse_empty_elem
    \/ Call_parse_encoding
    \/ Call_parse_pubidlit
    \/ Call_parse_externalid
    \/ Call_parse_doctype
    \/ Call_parse_content_item
    \/ Call_parse_misc

Spec == Init /\ [][Next]_vars

\* One specification per family: its texts, and the productions applied to them.
NextDoc        == AddPart \/ Call_parse_doc \/ Call_parse_prolog \/ Call_parse_tail
NextNode       == \/ AddPart \/ Call_parse_ws \/ Call_parse_comment \/ Call_parse_pi
                  \/ Call_parse_chardata \/ Call_parse_cdsect \/ Call_parse_reference
                  \/ Call_parse_content \/ Call_parse_content_item \/ Call_parse_misc
NextElem       == AddPart \/ Call_parse_full_elem \/ Call_parse_elem \/ Call_parse_content
NextComment    == AddPart \/ Call_parse_comment
NextPi         == AddPart \/ Call_parse_pi
NextCharData   == AddPart \/ Call_parse_chardata
NextVersion    == AddPart \/ Call_parse_version
NextStandalone == AddPart \/ Call_parse_standalone
NextXmlDecl    == AddPart \/ Call_parse_xmldecl
NextAttValue   == AddPart \/ Call_parse_attvalue \/ Call_parse_attribute
NextReference  == AddPart \/ Call_parse_reference
NextTag        == \/ AddPart \/ Call_parse_starttag \/ Call_parse_empty_elem
                  \/ Call_parse_elem
NextExtId      == AddPart \/ Call_parse_pubidlit \/ Call_parse_externalid
NextDoctype    == AddPart \/ Call_parse_doctype
NextEncoding   == AddPart \/ Call_parse_encoding
NextTree       == \/ AddPart \/ Call_parse_elem \/ Call_parse_content_item
                  \/ Call_parse_misc \/ Call_parse_content \/ Call_parse_attribute

SpecDoc        == InitFam("doc") /\ [][NextDoc]_vars
SpecNode       == InitFam("node") /\ [][NextNode]_vars
SpecElem       == InitFam("elem") /\ [][NextElem]_vars
SpecComment    == InitFam("comment") /\ [][NextComment]_vars
SpecPi         == InitFam("pi") /\ [][NextPi]_vars
SpecCharData   == InitFam("chardata") /\ [][NextCharData]_vars
SpecVersion    == InitFam("version") /\ [][NextVersion]_vars
SpecStandalone == InitFam("standalone") /\ [][NextStandalone]_vars
SpecXmlDecl    == InitFam("xmldecl") /\ [][NextXmlDecl]_vars
SpecAttValue   == InitFam("attvalue") /\ [][NextAttValue]_vars
SpecReference  == InitFam("reference") /\ [][NextReference]_vars
SpecTag        == InitFam("tag") /\ [][NextTag]_vars
SpecExtId      == InitFam("extid") /\ [][NextExtId]_vars
SpecDoctype    == InitFam("doctype") /\ [][NextDoctype]_vars
SpecEncoding   == InitFam("encoding") /\ [][NextEncoding]_vars
SpecTree       == InitFam("tree") /\ [][NextTree]_vars

-----------------------------------------------------------------------------
(* The claims *)

\* C1 (as claimed): parse_doc returns Ok(Doc) or Err(XmlError) on every input;
\* no input makes it abort.
C1_ParseDocNeverAborts ==
    call = "parse_doc" => res.k \in {"Ok", "Err"}

\* The end offset of the prolog: the position after the XML declaration, the
\* doctype declaration and the misc items that parse_prolog consumed.
PrologEnd(t) == prolog_scan(t, 0).v.here2

\* C2 (as claimed): when the text is a non-empty prolog followed by a root
\* element that parses at the prolog's end offset and by trailing misc up to
\* the end of the text, parse_doc returns a Doc with that prolog and that
\* element.
C2_RootParsedAtPrologEnd ==
    (/\ call = "parse_doc"
     /\ IsOk(prolog_scan(text, 0))
     /\ PrologEnd(text) > 0
     /\ PrologEnd(text) <= Len(text)
     /\ IsOk(parse_elem(text, PrologEnd(text), 0))
     /\ IsOk(parse_tail(text, Elem_get_endpos(parse_elem(text, PrologEnd(text), 0).v))))
    => /\ IsOk(res)
       /\ res.v.prolog = parse_prolog(text, 0).v
       /\ res.v.elem = parse_elem(text, PrologEnd(text), 0).v

\* get_endpos of the node a production returned (start + text_len for a
\* reference, as ContentItem::get_endpos computes it).
NodeEnd(name, s, node) ==
    CASE name = "parse_ws"        -> Ws_get_endpos(node)
      [] name = "parse_comment"   -> Comment_get_endpos(node)
      [] name = "parse_pi"        -> ProcInstr_get_endpos(node)
      [] name = "parse_chardata"  -> CharData_get_endpos(node)
      [] name = "parse_cdsect"    -> CDSect_get_endpos(node)
      [] name = "parse_reference" -> s + Reference_text_len(node)

\* The text a node stands for: its delimiters and the text it keeps.
NodeSource(name, node) ==
    CASE name = "parse_ws"        -> node.text
      [] name = "parse_comment"   -> <<"<","!","-","-">> \o node.text \o <<"-","-",">">>
      [] name = "parse_pi"        ->
            <<"<","?">> \o node.target.name
              \o (IF node.space.some THEN node.space.v.text ELSE <<>>)
              \o (IF node.arg.some THEN node.arg.v ELSE <<>>) \o <<"?",">">>
      [] name = "parse_chardata"  -> node.text
      [] name = "parse_cdsect"    -> StartNeedle \o node.text \o <<"]","]",">">>
      [] name = "parse_reference" ->
            IF node.kind = "EntityRef" THEN <<"&">> \o node.name \o <<";">>
            ELSE <<"&","#">> \o node.s \o <<";">>

SpanProductions == {"parse_ws", "parse_comment", "parse_pi", "parse_chardata",
                    "parse_cdsect", "parse_reference"}

\* C3 (as claimed): when a production succeeds at offset s, the end offset of
\* its node is s plus the number of characters consumed, so that
\* text[s..get_endpos] is exactly the text of the node.
C3_EndposSpansConsumedText ==
    (call \in SpanProductions /\ IsOk(res))
    => /\ NodeEnd(call, start, res.v) <= Len(text)
       /\ SubSeq(text, start + 1, NodeEnd(call, start, res.v))
            = NodeSource(call, res.v)

SameChars(a, b) == Len(a) = Len(b) /\ \A i \in 1..Len(a) : a[i] = b[i]

\* C4: in parse_full_elem, whenever the start tag, the content and the end tag
\* all parse, the result is Ok(FullElem) of these parts if and only if the two
\* names are equal character for character, and otherwise
\* Err(MismatchedTags(start name, end name)).
C4_FullElemNamesMatch ==
    call = "parse_full_elem" =>
      LET st == parse_starttag(text, start) IN
      IsOk(st) =>
        LET ct == parse_content(text, st.v.end, 1) IN
        IsOk(ct) =>
          LET et == parse_endtag(text, Content_get_endpos(ct.v)) IN
          IsOk(et) =>
            IF SameChars(st.v.name, et.v.name)
            THEN res = Ok([start |-> st.v, content |-> Some(ct.v), end |-> et.v])
            ELSE res = Err(MismatchedTags(st.v.name, et.v.name))

\* a start tag and an end tag whose names differ by case only
C4_Witness ==
    /\ call = "parse_full_elem"
    /\ res = Err(MismatchedTags(<<"a">>, <<"A">>))

\* The text from the start offset on is `<!--` B `-->` and B holds no '>'.
CommentForm ==
    /\ Len(text) - start >= 7
    /\ StartsWith(text, start, <<"<","!","-","-">>)
    /\ StartsWith(text, Len(text) - 3, <<"-","-",">">>)
    /\ \A i \in (start + 5)..(Len(text) - 3) : text[i] # ">"

CommentBody == SubSeq(text, start + 5, Len(text) - 3)

HasDoubleDash(b) == \E i \in 1..(Len(b) - 1) : b[i] = "-" /\ b[i + 1] = "-"

EndsWithDash(b) == b # <<>> /\ Last(b) = "-"

\* C5: parse_comment on `<!--` B `-->`, B without '>', returns the Comment of
\* text B when B holds no `--` and does not end with `-`, and IllegalSubstr in
\* every other case; the text of a parsed comment never holds `--`.
C5_CommentBody ==
    call = "parse_comment" =>
      /\ CommentForm =>
           IF ~HasDoubleDash(CommentBody) /\ ~EndsWithDash(CommentBody)
           THEN res = Ok([start |-> start, text |-> CommentBody])
           ELSE res = Err(IllegalSubstr)
      /\ IsOk(res) => ~HasDoubleDash(res.v.text)

\* a body without `--` that ends with `-`
C5_Witness ==
    /\ call = "parse_comment"
    /\ CommentForm
    /\ EndsWithDash(CommentBody) /\ ~HasDoubleDash(CommentBody)
    /\ res = Err(IllegalSubstr)

IsXmlAnyCase(n) ==
    Len(n) = 3 /\ n[1] \in {"x", "X"} /\ n[2] \in {"m", "M"} /\ n[3] \in {"l", "L"}

\* The text at the start offset is `<?` followed by a Name.
PiForm ==
    /\ StartsWith(text, start, <<"<", "?">>)
    /\ Has(text, start + 2)
    /\ is_namestart(Get(text, start + 2))

\* That Name: the longest run of name characters after `<?`.
PiName == SubSeq(text, start + 3, name_run(text, start + 2))

\* C6: parse_pi on `<?` Name fails with ReservedNameXml exactly when the Name
\* is x, m, l in any combination of cases, whatever follows it; a longer Name
\* that begins with these letters is not rejected for this reason.
C6_ReservedXmlTarget ==
    call = "parse_pi" =>
      /\ PiForm => (res = Err(ReservedNameXml) <=> IsXmlAnyCase(PiName))
      /\ res = Err(ReservedNameXml) => PiForm

\* the target xMl, in mixed case
C6_Witness ==
    /\ call = "parse_pi"
    /\ PiForm
    /\ PiName = <<"x", "M", "l">>
    /\ res = Err(ReservedNameXml)

\* The index of the first '<' or '&' at or after i, or the length of the text.
RECURSIVE RunEnd(_, _)
RunEnd(t, i) ==
    IF Has(t, i) /\ Get(t, i) \notin {"<", "&"} THEN RunEnd(t, i + 1) ELSE i

\* R: the characters from the start offset up to the first '<' or '&'.
CharRun == SubSeq(text, start + 1, RunEnd(text, start))

HasCDEnd(r) ==
    \E i \in 1..(Len(r) - 2) : r[i] = "]" /\ r[i + 1] = "]" /\ r[i + 2] = ">"

\* C7: parse_chardata at s, R being the run from s up to the first '<' or '&':
\* IllegalSubstr when R holds `]]>`; otherwise, a '<' or '&' ending R, NoData
\* when R is empty and the CharData of text R when it is not.
C7_CharDataRun ==
    call = "parse_chardata" =>
      IF HasCDEnd(CharRun) THEN res = Err(IllegalSubstr)
      ELSE Has(text, RunEnd(text, start)) =>
             IF CharRun = <<>> THEN res = Err(NoData)
             ELSE res = Ok([start |-> start, text |-> CharRun])

\* a run that holds `]]` not followed by '>'
C7_Witness ==
    /\ call = "parse_chardata"
    /\ \E i \in 1..(Len(CharRun) - 2) :
         CharRun[i] = "]" /\ CharRun[i + 1] = "]" /\ CharRun[i + 2] = "a"
    /\ IsOk(res) /\ res.v.text = CharRun

Quotes == {"'", "\""}

\* The index (1-based) of the first quote of the text, or 0.
FirstQuote(t) ==
    IF \E i \in 1..Len(t) : t[i] \in Quotes
    THEN CHOOSE i \in 1..Len(t) : t[i] \in Quotes /\ \A j \in 1..(i - 1) : t[j] \notin Quotes
    ELSE 0

VersionLeads ==
    { <<" ","v","e","r","s","i","o","n","=">>,
      <<" ","v","e","r","s","i","o","n"," ","="," ">> }

\* A decimal numeral: digits with at most one '.', and a digit at least.
IsNumeral(n) ==
    /\ \A i \in 1..Len(n) : n[i] \in Digits \cup {"."}
    /\ \E i \in 1..Len(n) : n[i] \in Digits
    /\ \A i, j \in 1..Len(n) : (n[i] = "." /\ n[j] = ".") => i = j

\* The quoted part of the text, without its quotes.
VersionNumeral == SubSeq(text, FirstQuote(text) + 1, Len(text) - 1)

\* The text is whitespace, `version`, `=`, and a quoted decimal numeral.
VersionForm ==
    /\ FirstQuote(text) > 0
    /\ SubSeq(text, 1, FirstQuote(text) - 1) \in VersionLeads
    /\ Len(text) > FirstQuote(text)
    /\ text[Len(text)] = text[FirstQuote(text)]
    /\ IsNumeral(VersionNumeral)

\* The value of a decimal numeral is 2.0 or greater exactly when its integer
\* part is 2 or greater.
NumeralAtLeastTwo(n) == DecVal(until_dot(n)) >= 2

\* C8 (as claimed): parse_version on whitespace, `version`, `=` and a quoted
\* decimal numeral fails with KeywordMatchFail when the numeral's value is 2.0
\* or greater and succeeds when it is below 2.0.
C8_VersionBelowTwoAccepted ==
    (call = "parse_version" /\ VersionForm) =>
      IF NumeralAtLeastTwo(VersionNumeral)
      THEN res = Err(KeywordMatchFail)
      ELSE IsOk(res) /\ res.v.start = 0 /\ res.v.end = Len(text)

\* The text is whitespace, `standalone`, `=` with optional whitespace around
\* it, and a value; ValueAt is the offset of the value.
KeywordAt == ws_run(text, 0)
EqAt      == ws_run(text, KeywordAt + Len(Standalone))
ValueAt   == ws_run(text, EqAt + 1)

StandaloneForm ==
    /\ KeywordAt > 0
    /\ StartsWith(text, KeywordAt, Standalone)
    /\ Has(text, EqAt) /\ Get(text, EqAt) = "="

\* C9 (as claimed): parse_standalone accepts each of "yes", 'yes', "no" and
\* 'no' after the keyword and `=`, with is_standalone true for the yes forms
\* and false for the no forms and end just past the closing quote; any other
\* value yields KeywordMatchFail.
C9_StandaloneFourValues ==
    (call = "parse_standalone" /\ StandaloneForm) =>
      IF StartsWith(text, ValueAt, needle1) \/ StartsWith(text, ValueAt, needle2)
      THEN res = Ok([start |-> 0, end |-> ValueAt + 5, is_standalone |-> TRUE])
      ELSE IF StartsWith(text, ValueAt, needle3) \/ StartsWith(text, ValueAt, needle4)
      THEN res = Ok([start |-> 0, end |-> ValueAt + 4, is_standalone |-> FALSE])
      ELSE res = Err(KeywordMatchFail)

\* The declarations found in the text after `<?xml` at the start offset, each
\* at the end of the one before it.
DeclVersion    == parse_version(text, start + Len(XmlNeedle))
DeclEncoding   == parse_encoding(text, DeclVersion.v.end)
AfterEncoding  == IF IsOk(DeclEncoding) THEN DeclEncoding.v.end ELSE DeclVersion.v.end
DeclStandalone == parse_standalone(text, AfterEncoding)
AfterStandalone == IF IsOk(DeclStandalone) THEN DeclStandalone.v.end ELSE AfterEncoding

\* C10: whenever parse_xmldecl succeeds at s, the text from s is `<?xml`, a
\* version declaration, an optional encoding declaration, an optional
\* standalone declaration, optional whitespace and `?>` in this order; the
\* XmlDecl has start = s, end just after the `?>`, the parsed version,
\* Some(encoding) exactly when an encoding declaration is there and
\* Some(standalone) exactly when a standalone declaration is there.
C10_XmlDeclShape ==
    (call = "parse_xmldecl" /\ IsOk(res)) =>
      /\ StartsWith(text, start, XmlNeedle)
      /\ res.v.start = start
      /\ IsOk(DeclVersion) /\ res.v.version = DeclVersion.v
      /\ res.v.encoding = (IF IsOk(DeclEncoding) THEN Some(DeclEncoding.v) ELSE None)
      /\ res.v.standalone =
           (IF IsOk(DeclStandalone) THEN Some(DeclStandalone.v) ELSE None)
      /\ start + Len(XmlNeedle) < DeclVersion.v.end
      /\ DeclVersion.v.end <= AfterEncoding
      /\ AfterEncoding <= AfterStandalone
      /\ AfterStandalone <= res.v.end - 2
      /\ \A i \in (AfterStandalone + 1)..(res.v.end - 2) : text[i] \in WsChars
      /\ res.v.end <= Len(text)
      /\ SubSeq(text, res.v.end - 1, res.v.end) = <<"?", ">">>

\* a declaration with all three parts, ending the text
C10_Witness ==
    /\ call = "parse_xmldecl"
    /\ IsOk(res)
    /\ res.v.encoding.some /\ res.v.standalone.some
    /\ res.v.encoding.v.enc_name = <<"u">>
    /\ res.v.end = Len(text)

\* The quote character that closes an attribute value opened at offset s.
ClosingQuote(t, s) == IF Get(t, s) = "'" THEN "'" ELSE "\""

\* The index of the first character c at or after i, or the length of t.
RECURSIVE FirstAt(_, _, _)
FirstAt(t, i, c) ==
    IF ~Has(t, i) \/ Get(t, i) = c THEN i ELSE FirstAt(t, i + 1, c)

\* The characters between the opening delimiter at start and the next
\* occurrence of the closing quote.
ValueBetween ==
    SubSeq(text, start + 2, FirstAt(text, start + 1, ClosingQuote(text, start)))

\* The source text of an attribute value item, and of a list of items.
ItemSource(item) ==
    IF item.kind = "Text" THEN item.s
    ELSE NodeSource("parse_reference", item.r)

RECURSIVE ItemsSource(_)
ItemsSource(items) ==
    IF items = <<>> THEN <<>>
    ELSE ItemSource(Head(items)) \o ItemsSource(Tail(items))

\* C11 (as claimed): whenever parse_attvalue succeeds, its items are the
\* in-order segmentation of the characters between the two delimiters: no Text
\* item is empty, no two Text items are adjacent, no Text item contains '<',
\* '&' or the closing quote, and the source texts of the items, concatenated,
\* are exactly the characters between the delimiters.
C11_AttValueSegmentation ==
    (call = "parse_attvalue" /\ IsOk(res)) =>
      LET items == res.v.items IN
      /\ ItemsSource(items) = ValueBetween
      /\ \A i \in 1..Len(items) :
           items[i].kind = "Text" =>
             /\ items[i].s # <<>>
             /\ \A j \in 1..Len(items[i].s) :
                  items[i].s[j] \notin {"<", "&", ClosingQuote(text, start)}
      /\ \A i \in 1..(Len(items) - 1) :
           ~(items[i].kind = "Text" /\ items[i + 1].kind = "Text")

\* The index after the target Name of a processing instruction.
PiTargetEnd == name_run(text, start + 2)

\* The index of the first `?>` at or after i, or the length of t when there
\* is none.
RECURSIVE FirstPiClose(_, _)
FirstPiClose(t, i) ==
    IF ~Has(t, i + 1) THEN Len(t)
    ELSE IF Get(t, i) = "?" /\ Get(t, i + 1) = ">" THEN i
    ELSE FirstPiClose(t, i + 1)

\* The end of the whitespace run that follows the target.
PiSpaceEnd == ws_run(text, PiTargetEnd)

\* C12 (as claimed): parse_pi on `<?` Target, the target not being reserved:
\* if whitespace follows the target, space is the maximal whitespace run and
\* arg is the characters after it up to the first following `?>`, and the call
\* fails when no `?>` follows; if `?>` follows the target at once, space and
\* arg are None; if anything else follows the target, the call fails.
C12_PiSpaceAndArg ==
    (call = "parse_pi" /\ PiForm /\ ~IsXmlAnyCase(PiName)) =>
      IF Has(text, PiTargetEnd) /\ Get(text, PiTargetEnd) \in WsChars
      THEN IF FirstPiClose(text, PiSpaceEnd) < Len(text)
           THEN /\ IsOk(res)
                /\ res.v.target.name = PiName
                /\ res.v.space.some
                /\ res.v.space.v.text = SubSeq(text, PiTargetEnd + 1, PiSpaceEnd)
                /\ res.v.arg
                     = Some(SubSeq(text, PiSpaceEnd + 1,
                                   FirstPiClose(text, PiSpaceEnd)))
           ELSE IsErr(res)
      ELSE IF StartsWith(text, PiTargetEnd, <<"?", ">">>)
           THEN /\ IsOk(res)
                /\ res.v.target.name = PiName
                /\ res.v.space = None
                /\ res.v.arg = None
           ELSE IsErr(res)

\* The text is an outer start tag, then a nested element whose start tag,
\* content and end tag parse, then the outer element's end tag.
NestedStart == parse_starttag(text, parse_starttag(text, start).v.end)
NestedEnd ==
    parse_endtag(text,
        Content_get_endpos(parse_content(text, NestedStart.v.end, 0).v))
NestedForm ==
    /\ IsOk(parse_starttag(text, start))
    /\ IsOk(NestedStart)
    /\ IsOk(parse_content(text, NestedStart.v.end, 0))
    /\ IsOk(NestedEnd)
    /\ IsOk(parse_endtag(text, NestedEnd.v.end))
    /\ parse_endtag(text, NestedEnd.v.end).v.name
         = parse_starttag(text, start).v.name

\* C13 (as claimed): when parse_elem is applied to an element whose nested
\* element has an end-tag name that differs from its start-tag name, the error
\* returned is MismatchedTags with the nested element's two names.
C13_NestedMismatchReported ==
    (call = "parse_elem" /\ NestedForm
       /\ NestedStart.v.name # NestedEnd.v.name)
    => res = Err(MismatchedTags(NestedStart.v.name, NestedEnd.v.name))

\* C14 (as claimed): parse_attvalue succeeds only if the character at its
\* start offset is a quote character, and the value then ends at the next
\* occurrence of that quote; an attribute whose value does not begin with a
\* quote is rejected.
C14_AttValueOpensWithQuote ==
    /\ (call = "parse_attvalue" /\ IsOk(res)) =>
         /\ Get(text, start) \in Quotes
         /\ AttValue_get_endpos(res.v)
              = FirstAt(text, start + 1, Get(text, start)) + 1
    /\ (call = "parse_attribute" /\ IsOk(res)) =>
         Get(text, res.v.value.start) \in Quotes

\* C15 (as claimed): parse_reference returns a CharRef only when the run of
\* characters after `&#` is terminated by ';' inside the text, and an
\* EntityRef only when the Name after '&' is immediately followed by ';'; the
\* end offset of the reference (start + text_len) never exceeds the length of
\* the text.
C15_ReferenceTerminated ==
    (call = "parse_reference" /\ IsOk(res)) =>
      /\ res.v.kind = "CharRef" =>
           /\ Has(text, start + 2 + Len(res.v.s))
           /\ Get(text, start + 2 + Len(res.v.s)) = ";"
      /\ res.v.kind = "EntityRef" =>
           /\ Has(text, name_run(text, start + 1))
           /\ Get(text, name_run(text, start + 1)) = ";"
      /\ start + Reference_text_len(res.v) <= Len(text)

\* C16: parse_elem at offset s returns Elem::Empty of the node when
\* parse_empty_elem succeeds at s, Err(TextEnd) when parse_empty_elem fails
\* with TextEnd, and otherwise the result of parse_full_elem at s: Elem::Full
\* of its node, or its error.
C16_ElemDispatch ==
    call = "parse_elem" =>
      IF IsOk(parse_empty_elem(text, start))
      THEN res = Ok([kind |-> "Empty", empty |-> parse_empty_elem(text, start).v])
      ELSE IF parse_empty_elem(text, start).e = TextEnd
      THEN res = Err(TextEnd)
      ELSE IF IsOk(parse_full_elem(text, start, 1))
      THEN res = Ok([kind |-> "Full", full |-> parse_full_elem(text, start, 1).v])
      ELSE res = parse_full_elem(text, start, 1)

\* the text ends inside an empty-element tag that the full form would reject
\* for another reason
C16_Witness ==
    /\ call = "parse_elem"
    /\ parse_empty_elem(text, start) = Err(TextEnd)
    /\ IsErr(parse_full_elem(text, start, 1))
    /\ parse_full_elem(text, start, 1) # Err(TextEnd)
    /\ res = Err(TextEnd)

\* The position where a repetition of parse_misc from pos stops (the first
\* position, each item starting at the end offset of the previous one, where
\* parse_misc fails), and the items collected up to there.
RECURSIVE MiscStop(_, _)
MiscStop(t, pos) ==
    IF IsOk(parse_misc(t, pos))
    THEN MiscStop(t, Misc_get_endpos(parse_misc(t, pos).v))
    ELSE pos

RECURSIVE MiscItems(_, _)
MiscItems(t, pos) ==
    IF IsOk(parse_misc(t, pos))
    THEN <<parse_misc(t, pos).v>>
           \o MiscItems(t, Misc_get_endpos(parse_misc(t, pos).v))
    ELSE <<>>

\* Where the two repetitions of parse_prolog start: after the XML declaration
\* when there is one, and after the doctype declaration when there is one.
PrologMiscStart ==
    IF IsOk(parse_xmldecl(text, 0)) THEN parse_xmldecl(text, 0).v.end ELSE 0
PrologDoctypeAt == MiscStop(text, PrologMiscStart)
PrologMiscRestart ==
    IF IsOk(parse_doctype(text, PrologDoctypeAt))
    THEN parse_doctype(text, PrologDoctypeAt).v.end
    ELSE PrologDoctypeAt

\* The two repetitions of parse_prolog never return the failure of parse_misc
\* and keep the items collected before it.
PrologMiscLoops ==
    call = "parse_prolog" =>
      /\ ~IsErr(res)
      /\ IsOk(res) =>
           res.v.miscs = MiscItems(text, PrologMiscStart)
                           \o MiscItems(text, PrologMiscRestart)

\* C17 (as claimed): every repetition of parse_misc stops at the first
\* position where parse_misc fails and returns the items collected so far; the
\* failure, whatever its kind, is never returned to the caller of the loop, so
\* parse_tail returns no error.
C17_MiscFailureNeverReturned ==
    /\ PrologMiscLoops
    /\ call = "parse_tail" => res = Ok(MiscItems(text, start))

\* C17 (amended): the two repetitions of parse_prolog are as claimed;
\* parse_tail returns the items collected so far only when its repetition
\* stops at or beyond the end of the text (parse_misc failing with TextEnd),
\* and returns Err(NoValidVariant), the failure of parse_misc, when it stops
\* at a character of the text.
C17_TailReturnsOtherFailures ==
    /\ PrologMiscLoops
    /\ call = "parse_tail" =>
         IF Has(text, MiscStop(text, start))
         THEN res = Err(NoValidVariant)
         ELSE res = Ok(MiscItems(text, start))

\* parse_tail collects an item and then stops at a character that begins no
\* misc item
C17_Witness ==
    /\ call = "parse_tail"
    /\ MiscItems(text, start) # <<>>
    /\ Has(text, MiscStop(text, start))
    /\ res = Err(NoValidVariant)

\* The content items that parse one after the other from pos, each starting
\* at the end offset of the previous one, up to the first position where
\* parse_content_item does not succeed.
RECURSIVE ContentItems(_, _)
ContentItems(t, pos) ==
    IF IsOk(parse_content_item(t, pos, 1))
    THEN <<parse_content_item(t, pos, 1).v>>
           \o ContentItems(t, ContentItem_get_endpos(parse_content_item(t, pos, 1).v))
    ELSE <<>>

\* C18 (as claimed): parse_content never returns an error: it returns the
\* content whose items are the maximal sequence of consecutive content items
\* that parse from the start offset (empty if nothing matched); and at a
\* position where the text begins with `</` no alternative succeeds.
C18_ContentNeverFails ==
    /\ call = "parse_content" =>
         /\ IsOk(res)
         /\ res.v.start = start
         /\ res.v.items = ContentItems(text, start)
    /\ \A p \in 0..Len(text) :
         StartsWith(text, p, <<"<", "/">>) => ~IsOk(parse_content_item(text, p, 1))

\* The index of the first `]]>` at or after i, or the length of t when there
\* is none.
RECURSIVE FirstCDEnd(_, _)
FirstCDEnd(t, i) ==
    IF ~Has(t, i + 2) THEN Len(t)
    ELSE IF SubSeq(t, i + 1, i + 3) = <<"]", "]", ">">> THEN i
    ELSE FirstCDEnd(t, i + 1)

\* The offset after the prefix `<![CDATA[` of a section that begins at start.
CDBodyStart == start + Len(StartNeedle)

\* C19: parse_cdsect at an offset not beyond the text returns
\* Err(BadCDATAStart) if the text there does not begin with `<![CDATA[`;
\* otherwise it returns the CDSect whose text is exactly the characters
\* between that prefix and the first following `]]>`, or Err(TextEnd) if no
\* `]]>` follows; the text returned never contains `]]>`.
C19_CDSectBody ==
    call = "parse_cdsect" =>
      IF ~StartsWith(text, start, StartNeedle) THEN res = Err(BadCDATAStart)
      ELSE IF FirstCDEnd(text, CDBodyStart) < Len(text)
      THEN /\ res = Ok([start |-> start,
                        text |-> SubSeq(text, CDBodyStart + 1,
                                        FirstCDEnd(text, CDBodyStart))])
           /\ ~HasCDEnd(res.v.text)
      ELSE res = Err(TextEnd)

\* a run of three ']' before '>': the first one stays in the text
C19_Witness ==
    /\ call = "parse_cdsect"
    /\ IsOk(res)
    /\ res.v.text # <<>>
    /\ Last(res.v.text) = "]"
    /\ SubSeq(text, CDBodyStart + Len(res.v.text) + 1,
              CDBodyStart + Len(res.v.text) + 3) = <<"]", "]", ">">>

\* The closer of the tag a production parses: '>' for a start tag, '/' for
\* an empty-element tag.
TagCloser == IF call = "parse_starttag" THEN ">" ELSE "/"

\* The text at the start offset is '<' followed by a Name; the index after it.
TagForm ==
    /\ Has(text, start) /\ Get(text, start) = "<"
    /\ Has(text, start + 1) /\ is_namestart(Get(text, start + 1))
TagNameEnd == name_run(text, start + 1)

\* The index after the attribute `Name = value` that begins at p: after the
\* quote that closes its value.
AttrEnd(t, p) ==
    FirstAt(t, ws_run(t, ws_run(t, name_run(t, p)) + 1) + 1,
            Get(t, ws_run(t, ws_run(t, name_run(t, p)) + 1))) + 1

\* The attribute loop as the claim states it, from the index here: Done at
\* the closer with the attributes in source order, AttrFail with the error of
\* an attribute that fails where the closer is not, Fail when the text ends
\* or whitespace is missing before an attribute.
RECURSIVE TagExpect(_, _, _, _)
TagExpect(t, here, closer, acc) ==
    IF ~Has(t, here) THEN [k |-> "Fail"]
    ELSE IF Get(t, here) = closer
    THEN [k |-> "Done", here |-> here, attribs |-> acc]
    ELSE IF Get(t, here) \notin WsChars THEN [k |-> "Fail"]
    ELSE IF Has(t, ws_run(t, here)) /\ Get(t, ws_run(t, here)) = closer
    THEN [k |-> "Done", here |-> ws_run(t, here), attribs |-> acc]
    ELSE IF IsOk(parse_attribute(t, ws_run(t, here)))
    THEN TagExpect(t, AttrEnd(t, ws_run(t, here)), closer,
                   Append(acc, parse_attribute(t, ws_run(t, here)).v))
    ELSE [k |-> "AttrFail", e |-> parse_attribute(t, ws_run(t, here)).e]

\* The names and the values of a list of attributes, in order.
NamesAndValues(attribs) ==
    [i \in 1..Len(attribs) |-> <<attribs[i].name, attribs[i].value.items>>]

\* The tag is closed at the index here: '>' for a start tag, `/>` for an
\* empty-element tag.
TagClosedAt(here) ==
    call = "parse_empty_elem" => (Has(text, here + 1) /\ Get(text, here + 1) = ">")

\* C20 (as claimed): parse_starttag and parse_empty_elem return the tag's
\* attributes in source order, one per `Name = value` between the tag name
\* and the closer; every attribute must be preceded by whitespace; reaching
\* the closer where an attribute was expected ends the loop normally, and any
\* other attribute failure makes the tag fail with that error. (When the
\* closer is met inside an attribute, after its Name, the tag fails; the claim
\* is not read as naming the error of that case.)
C20_TagAttributes ==
    (call \in {"parse_starttag", "parse_empty_elem"} /\ TagForm) =>
      LET x == TagExpect(text, TagNameEnd, TagCloser, <<>>) IN
      CASE x.k = "Done" ->
             IF TagClosedAt(x.here)
             THEN /\ IsOk(res)
                  /\ NamesAndValues(res.v.attribs) = NamesAndValues(x.attribs)
             ELSE IsErr(res)
        [] x.k = "AttrFail" ->
             IF x.e = BadChar(TagCloser) THEN IsErr(res) ELSE res = Err(x.e)
        [] x.k = "Fail" -> IsErr(res)
\* A public identifier literal opens at the start offset and has a closing
\* quote: PubidClose is the index of the first later occurrence of the quote
\* that opened it, PubidBody the characters between the two.
PubidOpen == Has(text, start) /\ Get(text, start) \in Quotes
PubidClose == FirstAt(text, start + 1, Get(text, start))
PubidBody == SubSeq(text, start + 2, PubidClose)

\* The index of the first character at or after i that is not in the set S, or
\* the length of t.
RECURSIVE FirstOutside(_, _, _)
FirstOutside(t, i, S) ==
    IF ~Has(t, i) \/ Get(t, i) \notin S THEN i ELSE FirstOutside(t, i + 1, S)

\* The offset that parse_externalid takes for the end of the public identifier
\* literal of a PUBLIC identifier it returned.
PubidStart == ws_run(text, Len(PublicKw))
PubidEnd == PubidStart + StrLen(res.v.pub_lit) + 2

\* C21 (as claimed): on a quoted literal, parse_pubidlit fails with BadChar(c)
\* at the first character c between the quotes that is neither a PubidChar nor
\* a quote, and whenever it succeeds it returns exactly the characters between
\* the opening quote and the matching closing quote, none skipped or dropped;
\* it succeeds when all of them are PubidChars. In parse_externalid the offset
\* pubid_start + length + 2 is then the index just after the closing quote.
C21_PubidLiteralExact ==
    /\ (call = "parse_pubidlit" /\ PubidOpen /\ Has(text, PubidClose)) =>
         LET bad == FirstOutside(text, start + 1, PubidChars \cup Quotes) IN
         /\ IsOk(res) => res.v = PubidBody
         /\ bad < PubidClose => res = Err(BadChar(Get(text, bad)))
         /\ (\A i \in 1..Len(PubidBody) : PubidBody[i] \in PubidChars \cup {"'"})
              => IsOk(res)
    /\ (call = "parse_externalid" /\ IsOk(res) /\ res.v.kind = "Public") =>
         PubidEnd = FirstAt(text, PubidStart + 1, Get(text, PubidStart)) + 1
\* The index just after the quoted literal that opens at p, or -1 when no
\* literal opens at p or it has no closing quote.
LiteralEnd(t, p) ==
    IF Has(t, p) /\ Get(t, p) \in Quotes /\ Has(t, FirstAt(t, p + 1, Get(t, p)))
    THEN FirstAt(t, p + 1, Get(t, p)) + 1
    ELSE -1

\* The index just after the whitespace that begins at p, or -1 without any.
RequiredWsEnd(t, p) == IF p >= 0 /\ ws_run(t, p) > p THEN ws_run(t, p) ELSE -1

\* The index just after the external identifier that begins at p, or -1:
\* `SYSTEM` S literal, or `PUBLIC` S literal S literal.
ExternalIdEnd(t, p) ==
    IF StartsWith(t, p, SystemKw)
    THEN LiteralEnd(t, RequiredWsEnd(t, p + Len(SystemKw)))
    ELSE IF StartsWith(t, p, PublicKw)
    THEN LiteralEnd(t, RequiredWsEnd(t,
           LiteralEnd(t, RequiredWsEnd(t, p + Len(PublicKw)))))
    ELSE -1

\* The index just after the internal-subset item that begins at p, or -1:
\* whitespace, a parameter-entity reference, a comment or a processing
\* instruction.
SubsetItemEnd(t, p) ==
    IF ~Has(t, p) THEN -1
    ELSE IF Get(t, p) \in WsChars THEN ws_run(t, p)
    ELSE IF Get(t, p) = "%"
      THEN IF /\ Has(t, p + 1) /\ is_namestart(Get(t, p + 1))
              /\ Has(t, name_run(t, p + 1)) /\ Get(t, name_run(t, p + 1)) = ";"
           THEN name_run(t, p + 1) + 1 ELSE -1
    ELSE IF IsOk(parse_comment(t, p)) THEN Comment_get_endpos(parse_comment(t, p).v)
    ELSE IF IsOk(parse_pi(t, p)) THEN ProcInstr_get_endpos(parse_pi(t, p).v)
    ELSE -1

\* The internal-subset items from p on: how many there are and where they end.
RECURSIVE SubsetItems(_, _, _)
SubsetItems(t, p, n) ==
    IF SubsetItemEnd(t, p) < 0 THEN [here |-> p, n |-> n]
    ELSE SubsetItems(t, SubsetItemEnd(t, p), n + 1)

\* The text from the start offset on read as a doctype declaration: whether it
\* is one, whether it has a bracketed subset of n items, and where it ends.
DoctypeShape ==
    LET no == [ok |-> FALSE, bracket |-> FALSE, n |-> 0, end |-> 0]
        p1 == RequiredWsEnd(text, start + Len(Doctype))
    IN IF ~StartsWith(text, start, Doctype) \/ p1 < 0 THEN no
       ELSE IF ~(Has(text, p1) /\ is_namestart(Get(text, p1))) THEN no
       ELSE LET p3  == ws_run(text, name_run(text, p1 + 1))
                ext == ExternalIdEnd(text, p3)
                p4  == ws_run(text, IF ext >= 0 THEN ext ELSE p3)
            IN IF ~Has(text, p4) THEN no
               ELSE IF Get(text, p4) = ">"
                 THEN [ok |-> TRUE, bracket |-> FALSE, n |-> 0, end |-> p4 + 1]
               ELSE IF Get(text, p4) # "[" THEN no
               ELSE LET its == SubsetItems(text, p4 + 1, 0)
                        p6  == ws_run(text, its.here + 1)
                    IN IF /\ its.n >= 1
                          /\ Has(text, its.here) /\ Get(text, its.here) = "]"
                          /\ Has(text, p6) /\ Get(text, p6) = ">"
                       THEN [ok |-> TRUE, bracket |-> TRUE, n |-> its.n,
                             end |-> p6 + 1]
                       ELSE no

\* C22 (as claimed): on `<!DOCTYPE`, whitespace, a Name, optional whitespace,
\* an optional external identifier, optional whitespace and then either `>` or
\* `[`, one or more internal-subset items, `]`, optional whitespace and `>`,
\* parse_doctype returns a DoctypeDecl whose end is the index just after the
\* final `>`, with int_subset = Some(items) for the bracketed subset of
\* whitespace, parameter-entity references, comments and processing
\* instructions, and None when there is no bracket.
C22_DoctypeAccepted ==
    (call = "parse_doctype" /\ DoctypeShape.ok) =>
      /\ IsOk(res)
      /\ res.v.end = DoctypeShape.end
      /\ IF DoctypeShape.bracket
         THEN /\ res.v.int_subset.some
              /\ Len(res.v.int_subset.v.items) = DoctypeShape.n
         ELSE res.v.int_subset = None
RECURSIVE ElemDepth(_)
RECURSIVE ItemsDepth(_)
ElemDepth(elem) ==
    IF elem.kind = "Empty" \/ ~elem.full.content.some THEN 1
    ELSE 1 + ItemsDepth(elem.full.content.v.items)

ItemsDepth(items) ==
    IF items = <<>> THEN 0
    ELSE LET h == IF Head(items).kind = "Elem" THEN ElemDepth(Head(items).elem) ELSE 0
             r == ItemsDepth(Tail(items))
         IN IF h > r THEN h ELSE r

\* The deepest nesting that a text of MaxElemParts tokens reaches, and the text
\* of n start tags followed by n end tags.
DeepestNesting == (MaxElemParts + 1) \div 2

RECURSIVE NestedText(_)
NestedText(n) ==
    IF n = 0 THEN <<>> ELSE <<"<","a",">">> \o NestedText(n - 1) \o <<"<","/","a",">">>

\* C24 (as claimed): the recursion-depth counter is checked against a maximum
\* at each recursive entry, so that an input whose elements nest deeper than the
\* maximum fails with MaxRecurDepth and no element nested deeper is returned.
\* The source names no maximum: the formula states the claim for a maximum
\* below DeepestNesting, and the counter reaches four times the nesting.
C24_RecursionDepthChecked ==
    call = "parse_elem" =>
      /\ IsOk(res) => ElemDepth(res.v) < DeepestNesting
      /\ text = NestedText(DeepestNesting) =>
           \E d \in 0..(4 * DeepestNesting) : res = Err(MaxRecurDepth(d))
EncLeads ==
    { <<" ">> \o EncodingKw \o <<"=">>, <<" ">> \o EncodingKw \o <<" ","="," ">> }

\* The text is whitespace, `encoding`, `=` and a quoted name; EncQuoted is the
\* name, without its quotes.
EncForm ==
    /\ FirstQuote(text) > 0
    /\ SubSeq(text, 1, FirstQuote(text) - 1) \in EncLeads
    /\ Len(text) > FirstQuote(text)
    /\ text[Len(text)] = text[FirstQuote(text)]
EncQuoted == SubSeq(text, FirstQuote(text) + 1, Len(text) - 1)

\* C25 (as claimed): whenever parse_encoding succeeds, enc_name is non-empty,
\* its first character is an ASCII letter and every later character is an
\* ASCII letter, a digit, '.', '_' or '-'; a quoted name that is empty or
\* begins with a digit or with punctuation is rejected.
C25_EncNameWellFormed ==
    call = "parse_encoding" =>
      /\ IsOk(res) =>
           LET n == res.v.enc_name IN
           /\ n # <<>>
           /\ n[1] \in LowerAZ \cup UpperAZ
           /\ \A i \in 2..Len(n) :
                n[i] \in LowerAZ \cup UpperAZ \cup Digits \cup {".", "_", "-"}
      /\ (/\ EncForm
          /\ \/ EncQuoted = <<>>
             \/ EncQuoted[1] \in Digits \cup {".", "_", "-"})
           => IsErr(res)
\* A numeral of the form [0-9]+(\.[0-9]+)? : digits, with at most one '.',
\* which has a digit on each side.
IsVersionNum(n) ==
    /\ n # <<>>
    /\ \A i \in 1..Len(n) : n[i] \in Digits \cup {"."}
    /\ \A i, j \in 1..Len(n) : (n[i] = "." /\ n[j] = ".") => i = j
    /\ n[1] # "." /\ n[Len(n)] # "."

\* C26 (as claimed): parse_version succeeds only when the text between the
\* quotes matches [0-9]+(\.[0-9]+)? : the empty numeral, `.`, `1.`, `.5` and
\* numerals with two decimal points are rejected.
C26_VersionNumeralForm ==
    (call = "parse_version" /\ IsOk(res)) =>
      /\ FirstQuote(text) > 0
      /\ res.v.end > FirstQuote(text)
      /\ IsVersionNum(SubSeq(text, FirstQuote(text) + 1, res.v.end - 1))
\* The offset at which an element, and a content item, begins.
ElemStart(elem) ==
    IF elem.kind = "Empty" THEN elem.empty.start ELSE elem.full.start.start

ItemStart(item) ==
    CASE item.kind = "Elem"      -> ElemStart(item.elem)
      [] item.kind = "Reference" -> item.start
      [] item.kind = "ProcInstr" -> item.pi.start
      [] item.kind = "Comment"   -> item.comment.start
      [] item.kind = "CharData"  -> item.chardata.start
      [] item.kind = "CDSect"    -> item.cdsect.start

\* The text that a content item other than an element stands for.
ItemText(item) ==
    CASE item.kind = "Reference" -> NodeSource("parse_reference", item.reference)
      [] item.kind = "ProcInstr" -> NodeSource("parse_pi", item.pi)
      [] item.kind = "Comment"   -> NodeSource("parse_comment", item.comment)
      [] item.kind = "CharData"  -> NodeSource("parse_chardata", item.chardata)
      [] item.kind = "CDSect"    -> NodeSource("parse_cdsect", item.cdsect)

\* The tag occupies t[a..b], begins with lead and ends with '>'.
TagSpan(t, a, b, lead) ==
    /\ a + Len(lead) < b /\ b <= Len(t)
    /\ StartsWith(t, a, lead)
    /\ Get(t, b - 1) = ">"

\* The parts of the element tile the text from s on: the start (or empty) tag
\* begins at s, each content item begins where the part before it ends and
\* stands for exactly the text it spans, the end tag begins where the last
\* item ends, and so within every child element.
RECURSIVE ElemTiled(_, _, _)
RECURSIVE ItemsTiled(_, _, _)
ElemTiled(t, elem, s) ==
    IF elem.kind = "Empty"
    THEN /\ elem.empty.start = s
         /\ TagSpan(t, s, elem.empty.end, <<"<">>)
         /\ Get(t, elem.empty.end - 2) = "/"
    ELSE LET f == elem.full IN
         /\ f.start.start = s
         /\ TagSpan(t, s, f.start.end, <<"<">>)
         /\ f.content.some
         /\ f.content.v.start = f.start.end
         /\ ItemsTiled(t, f.content.v.items, f.start.end)
         /\ f.end.start = Content_get_endpos(f.content.v)
         /\ TagSpan(t, f.end.start, f.end.end, <<"<","/">>)

ItemsTiled(t, items, p) ==
    IF items = <<>> THEN TRUE
    ELSE LET item == Head(items)
             e    == ContentItem_get_endpos(item)
         IN /\ ItemStart(item) = p
            /\ p < e /\ e <= Len(t)
            /\ IF item.kind = "Elem" THEN ElemTiled(t, item.elem, p)
               ELSE SubSeq(t, p + 1, e) = ItemText(item)
            /\ ItemsTiled(t, Tail(items), e)

AsciiText == \A i \in 1..Len(text) : text[i] \notin NonAscii

\* C27: on a text of ASCII characters only, whenever parse_elem succeeds at
\* offset s with end offset e, e does not exceed the length of the text,
\* text[s] is '<', text[e-1] is '>', and the start (or empty) tag, the content
\* items and the end tag tile text[s..e], each part beginning exactly where the
\* previous one ends, at every nesting depth.
C27_ElemTilesText ==
    (call = "parse_elem" /\ IsOk(res) /\ AsciiText) =>
      LET e == Elem_get_endpos(res.v) IN
      /\ e <= Len(text)
      /\ Get(text, start) = "<"
      /\ Get(text, e - 1) = ">"
      /\ ElemTiled(text, res.v, start)

\* a full element with a child element and another content item after it
C27_Witness ==
    /\ call = "parse_elem" /\ IsOk(res) /\ AsciiText
    /\ res.v.kind = "Full"
    /\ Len(res.v.full.content.v.items) = 2
    /\ res.v.full.content.v.items[1].kind = "Elem"
    /\ Elem_get_endpos(res.v) = Len(text)
\* C28: the TextEnd short-circuit of parse_elem never hides a parseable
\* element: at every offset s where parse_full_elem succeeds, parse_empty_elem
\* fails with an error other than TextEnd, and parse_elem returns Elem::Full of
\* that element.
C28_ShortCircuitHidesNothing ==
    (call = "parse_elem" /\ IsOk(parse_full_elem(text, start, 1))) =>
      /\ IsErr(parse_empty_elem(text, start))
      /\ parse_empty_elem(text, start).e # TextEnd
      /\ res = Ok(FullOf(parse_full_elem(text, start, 1).v))

\* a full element whose start tag has an attribute, on which the empty form
\* fails at the '>' of the start tag
C28_Witness ==
    /\ call = "parse_elem"
    /\ IsOk(parse_full_elem(text, start, 1))
    /\ parse_full_elem(text, start, 1).v.start.attribs # <<>>
    /\ parse_empty_elem(text, start) = Err(BadChar(">"))
    /\ IsOk(res) /\ res.v.kind = "Full"
\* What the six alternatives of parse_content_item, and the three of
\* parse_misc, return at offset s.
ContentAlternatives(t, s) ==
    <<[kind |-> "Reference", r |-> parse_reference(t, s)],
      [kind |-> "Comment",   r |-> parse_comment(t, s)],
      [kind |-> "ProcInstr", r |-> parse_pi(t, s)],
      [kind |-> "CharData",  r |-> parse_chardata(t, s)],
      [kind |-> "CDSect",    r |-> parse_cdsect(t, s)],
      [kind |-> "Elem",      r |-> parse_elem(t, s, 1)]>>

MiscAlternatives(t, s) ==
    <<[kind |-> "Ws",        r |-> parse_ws(t, s)],
      [kind |-> "Comment",   r |-> parse_comment(t, s)],
      [kind |-> "ProcInstr", r |-> parse_pi(t, s)]>>

\* The ContentItem or Misc that wraps the value v of an alternative.
AlternativeNode(kind, s, v) ==
    CASE kind = "Reference" -> [kind |-> kind, start |-> s, reference |-> v]
      [] kind = "Comment"   -> [kind |-> kind, comment |-> v]
      [] kind = "ProcInstr" -> [kind |-> kind, pi |-> v]
      [] kind = "CharData"  -> [kind |-> kind, chardata |-> v]
      [] kind = "CDSect"    -> [kind |-> kind, cdsect |-> v]
      [] kind = "Elem"      -> [kind |-> kind, elem |-> v]
      [] kind = "Ws"        -> [kind |-> kind, ws |-> v]

\* At most one alternative succeeds, and the production returns the node of
\* the one that does: the result of trying them in any order.
OneAlternative(alts) ==
    /\ \A i, j \in 1..Len(alts) : (IsOk(alts[i].r) /\ IsOk(alts[j].r)) => i = j
    /\ \A i \in 1..Len(alts) :
         IsOk(alts[i].r) => res = Ok(AlternativeNode(alts[i].kind, start, alts[i].r.v))
    /\ IsOk(res) => \E i \in 1..Len(alts) : IsOk(alts[i].r)

\* C29: at any offset at most one of the six content-item alternatives
\* (reference, comment, processing instruction, character data, CDATA section,
\* nested element) succeeds, and at most one of the three misc alternatives
\* (whitespace, comment, processing instruction); the node that
\* parse_content_item and parse_misc return is the node of that alternative,
\* in whatever order the alternatives are tried.
C29_AlternativesExclusive ==
    /\ call = "parse_content_item" => OneAlternative(ContentAlternatives(text, start))
    /\ call = "parse_misc" => OneAlternative(MiscAlternatives(text, start))

\* a child element is the content item: the five alternatives tried before
\* the nested element all fail
C29_Witness ==
    /\ call = "parse_content_item"
    /\ IsOk(res) /\ res.v.kind = "Elem" /\ res.v.elem.kind = "Full"
    /\ IsErr(parse_chardata(text, start)) /\ IsErr(parse_cdsect(text, start))
\* get_endpos of the node that a production of elements, items or attributes
\* returned.
TreeNodeEnd(name, node) ==
    CASE name = "parse_elem"         -> Elem_get_endpos(node)
      [] name = "parse_content_item" -> ContentItem_get_endpos(node)
      [] name = "parse_misc"         -> Misc_get_endpos(node)
      [] name = "parse_content"      -> Content_get_endpos(node)
      [] name = "parse_attribute"    -> node.end

\* The productions that the repetition loops iterate (parse_attribute after
\* the whitespace, itself a misc item, that the attribute loops require).
LoopProductions == {"parse_misc", "parse_content_item", "parse_attribute", "parse_elem"}

\* C30 (as claimed): every production that succeeds at offset s returns a node
\* whose end offset is strictly greater than s.
C30_EveryProductionAdvances ==
    (call \in LoopProductions \cup {"parse_content"} /\ IsOk(res))
      => TreeNodeEnd(call, res.v) > start

\* C30 (amended): every production that a repetition loop iterates, when it
\* succeeds at offset s, returns a node whose end offset is strictly greater
\* than s, and none succeeds at the end of the text; the items that
\* parse_content collects begin at strictly increasing offsets from s on, each
\* ending beyond its beginning, while the Content itself ends at s when it has
\* no item.
C30_LoopsAdvance ==
    /\ (call \in LoopProductions /\ IsOk(res)) => TreeNodeEnd(call, res.v) > start
    /\ (call \in LoopProductions /\ start = Len(text)) => ~IsOk(res)
    /\ (call = "parse_content" /\ IsOk(res)) =>
         LET items == res.v.items IN
         /\ \A i \in 1..Len(items) : ContentItem_get_endpos(items[i]) > ItemStart(items[i])
         /\ \A i \in 1..(Len(items) - 1) :
              ItemStart(items[i + 1]) = ContentItem_get_endpos(items[i])
         /\ items # <<>> => ItemStart(items[1]) = start
         /\ items = <<>> <=> Content_get_endpos(res.v) = start

\* parse_content collects two items, the second a child element, and stops at
\* an end tag
C30_Witness ==
    /\ call = "parse_content" /\ IsOk(res)
    /\ Len(res.v.items) = 2
    /\ res.v.items[2].kind = "Elem"
    /\ Has(text, Content_get_endpos(res.v))

=============================================================================
